---- MODULE Spec2Model ----
(***************************************************************************)
(* A model of the infinite-canvas engine: the viewport transform           *)
(* (InfiniteCanvas), the shape store (ShapeManager, Shape) and the gesture *)
(* state machine (InteractionManager).                                     *)
(*                                                                         *)
(* JavaScript numbers are modelled as exact rationals extended with the    *)
(* IEEE special values +Infinity, -Infinity and NaN; rounding of finite    *)
(* results and the sign of zero are not modelled.                          *)
(***************************************************************************)
EXTENDS Integers, Sequences, FiniteSets, TLC

(***************************************************************************)
(* Numbers.  <<n, d>> with d > 0 and gcd(|n|, d) = 1 is the rational n/d;  *)
(* <<1, 0>> is +Infinity, <<-1, 0>> is -Infinity, <<0, 0>> is NaN.         *)
(***************************************************************************)
RECURSIVE Gcd(_, _)
Gcd(a, b) == IF b = 0 THEN a ELSE Gcd(b, a % b)

IAbs(i) == IF i < 0 THEN -i ELSE i

Sign(i) == IF i < 0 THEN -1 ELSE IF i > 0 THEN 1 ELSE 0

Norm(n, d) ==
  IF d = 0 THEN <<Sign(n), 0>>
  ELSE LET g == Gcd(IAbs(n), IAbs(d))
       IN  <<Sign(d) * (n \div g), IAbs(d) \div g>>

R(i) == <<i, 1>>

NaN == <<0, 0>>

PosInf == <<1, 0>>

IsNaN(a) == a[1] = 0 /\ a[2] = 0

IsFinite(a) == a[2] > 0

Neg(a) == <<-a[1], a[2]>>

Add(a, b) ==
  IF IsNaN(a) \/ IsNaN(b) THEN NaN
  ELSE IF a[2] = 0 /\ b[2] = 0 THEN (IF a[1] = b[1] THEN a ELSE NaN)
  ELSE IF a[2] = 0 THEN a
  ELSE IF b[2] = 0 THEN b
  ELSE IF a[2] = 1 /\ b[2] = 1 THEN <<a[1] + b[1], 1>>
  ELSE Norm(a[1] * b[2] + b[1] * a[2], a[2] * b[2])

Sub(a, b) == Add(a, Neg(b))

Mul(a, b) ==
  IF a[2] = 1 /\ b[2] = 1 THEN <<a[1] * b[1], 1>>
  ELSE Norm(a[1] * b[1], a[2] * b[2])

Recip(b) ==
  IF IsNaN(b) THEN NaN
  ELSE IF b[1] = 0 THEN PosInf
  ELSE <<Sign(b[1]) * b[2], IAbs(b[1])>>

Div(a, b) == Mul(a, Recip(b))

Lt(a, b) ==
  IF IsNaN(a) \/ IsNaN(b) THEN FALSE
  ELSE IF a[2] = 0 /\ b[2] = 0 THEN a[1] < b[1]
  ELSE a[1] * b[2] < b[1] * a[2]

Le(a, b) == ~IsNaN(a) /\ ~IsNaN(b) /\ ~Lt(b, a)

MathMax(a, b) ==
  IF IsNaN(a) \/ IsNaN(b) THEN NaN ELSE IF Lt(a, b) THEN b ELSE a

MathMin(a, b) ==
  IF IsNaN(a) \/ IsNaN(b) THEN NaN ELSE IF Lt(b, a) THEN b ELSE a

\* Math.sqrt on the squares of rationals (the touch pairs of the model are
\* chosen so that dx*dx + dy*dy is such a square).
ISqrt(n) == CHOOSE k \in 0..n : k * k = n

MathSqrt(a) ==
  IF IsNaN(a) \/ Lt(a, R(0)) THEN NaN
  ELSE IF a[2] = 0 THEN a
  ELSE <<ISqrt(a[1]), ISqrt(a[2])>>

Pt(x, y) == [x |-> x, y |-> y]

\* null for a shape reference (ids start at 1) and for a resize handle.
NULL == 0

NoHandle == "null"

(***************************************************************************)
(* InfiniteCanvas: the viewport.                                           *)
(***************************************************************************)
MinScale == <<1, 100>>

MaxScale == R(100)

\* The canvas element's bounding client rect: its origin and its size.
RectLeft == 0

RectTop == 0

CanvasWidth == 20

CanvasHeight == 20

\* onTransformChange and onMouseMove stand for the registered callbacks: each
\* holds the number of times the callback was called by the event being
\* handled (0 between events).
CanvasInit ==
  [scale |-> R(1), offsetX |-> R(0), offsetY |-> R(0),
   isDragging |-> FALSE, isPanEnabled |-> FALSE,
   lastMousePos |-> Pt(R(0), R(0)),
   lastTouchDistance |-> R(0),
   lastTouchCenter |-> Pt(R(0), R(0)),
   onTransformChange |-> 0, onMouseMove |-> 0]

NotifyTransformChange(c) == [c EXCEPT !.onTransformChange = @ + 1]

\* A variant that divides the screen point by the scale before the offset is
\* taken off.
ScreenToWorld_ScaledFirst(c, p) ==
  Pt(Sub(Div(p.x, c.scale), c.offsetX), Sub(Div(p.y, c.scale), c.offsetY))

ScreenToWorld(c, p) ==
  Pt(Div(Sub(p.x, c.offsetX), c.scale), Div(Sub(p.y, c.offsetY), c.scale))

WorldToScreen(c, q) ==
  Pt(Add(Mul(q.x, c.scale), c.offsetX), Add(Mul(q.y, c.scale), c.offsetY))

\* Math.max(minScale, Math.min(maxScale, scale * zoomFactor))
ClampScale(scale, zoomFactor) ==
  MathMax(MinScale, MathMin(MaxScale, Mul(scale, zoomFactor)))

\* A variant that anchors the world point computed with the new scale.
ZoomTowards_NewScale(c, mx, my, newScale) ==
  LET worldX == Div(Sub(mx, c.offsetX), newScale)
      worldY == Div(Sub(my, c.offsetY), newScale)
  IN  [c EXCEPT !.scale = newScale,
                !.offsetX = Sub(mx, Mul(worldX, newScale)),
                !.offsetY = Sub(my, Mul(worldY, newScale))]

\* The zoom towards a canvas-local point: the world point under it is computed
\* with the old scale, then the scale and the offset are replaced.
ZoomTowards(c, mx, my, newScale) ==
  LET worldX == Div(Sub(mx, c.offsetX), c.scale)
      worldY == Div(Sub(my, c.offsetY), c.scale)
  IN  [c EXCEPT !.scale = newScale,
                !.offsetX = Sub(mx, Mul(worldX, newScale)),
                !.offsetY = Sub(my, Mul(worldY, newScale))]

\* e = [x, y]: clientX, clientY; zoomFactor = Math.exp(-deltaY * zoomSensitivity).
CanvasHandleWheel(c, e, zoomFactor) ==
  LET mouseX == Sub(e.x, R(RectLeft))
      mouseY == Sub(e.y, R(RectTop))
  IN  NotifyTransformChange(ZoomTowards(c, mouseX, mouseY, ClampScale(c.scale, zoomFactor)))

\* A variant that starts the pan on every left-button pointer-down.
CanvasHandleMouseDown_AnyLeft(c, e) ==
  IF e.button = 1 \/ e.button = 0
  THEN [c EXCEPT !.isDragging = TRUE, !.lastMousePos = Pt(e.x, e.y)]
  ELSE c

\* e = [x, y, button]
CanvasHandleMouseDown(c, e) ==
  IF e.button = 1 \/ (e.button = 0 /\ c.isPanEnabled)
  THEN [c EXCEPT !.isDragging = TRUE, !.lastMousePos = Pt(e.x, e.y)]
  ELSE c

\* A variant that pans by the world delta (the screen delta over the scale).
CanvasHandleMouseMove_Scaled(c, e) ==
  LET c1 == [c EXCEPT !.onMouseMove = @ + 1]
  IN  IF c1.isDragging
      THEN NotifyTransformChange(
             [c1 EXCEPT !.offsetX = Add(c.offsetX, Div(Sub(e.x, c.lastMousePos.x), c.scale)),
                        !.offsetY = Add(c.offsetY, Div(Sub(e.y, c.lastMousePos.y), c.scale)),
                        !.lastMousePos = Pt(e.x, e.y)])
      ELSE c1

\* (currentMouseWorldPos, which only feeds the onMouseMove callback, is left out.)
CanvasHandleMouseMove(c, e) ==
  LET c1 == [c EXCEPT !.onMouseMove = @ + 1]
  IN  IF c1.isDragging
      THEN NotifyTransformChange(
             [c1 EXCEPT !.offsetX = Add(c.offsetX, Sub(e.x, c.lastMousePos.x)),
                        !.offsetY = Add(c.offsetY, Sub(e.y, c.lastMousePos.y)),
                        !.lastMousePos = Pt(e.x, e.y)])
      ELSE c1

CanvasHandleMouseUp(c) == [c EXCEPT !.isDragging = FALSE]

GetTouchDistance(touches) ==
  LET dx == Sub(touches[1].x, touches[2].x)
      dy == Sub(touches[1].y, touches[2].y)
  IN  MathSqrt(Add(Mul(dx, dx), Mul(dy, dy)))

GetTouchCenter(touches) ==
  Pt(Div(Add(touches[1].x, touches[2].x), R(2)),
     Div(Add(touches[1].y, touches[2].y), R(2)))

CanvasHandleTouchStart(c, touches) ==
  IF Len(touches) = 1
  THEN [c EXCEPT !.isDragging = TRUE, !.lastMousePos = touches[1]]
  ELSE IF Len(touches) = 2
  THEN [c EXCEPT !.lastTouchDistance = GetTouchDistance(touches),
                 !.lastTouchCenter = GetTouchCenter(touches)]
  ELSE c

CanvasHandleTouchMove(c, touches) ==
  IF Len(touches) = 1 /\ c.isDragging
  THEN NotifyTransformChange(
         [c EXCEPT !.offsetX = Add(c.offsetX, Sub(touches[1].x, c.lastMousePos.x)),
                   !.offsetY = Add(c.offsetY, Sub(touches[1].y, c.lastMousePos.y)),
                   !.lastMousePos = touches[1]])
  ELSE IF Len(touches) = 2
  THEN LET distance == GetTouchDistance(touches)
           center == GetTouchCenter(touches)
           zoomFactor == Div(distance, c.lastTouchDistance)
           newScale == ClampScale(c.scale, zoomFactor)
           centerX == Sub(center.x, R(RectLeft))
           centerY == Sub(center.y, R(RectTop))
           z == ZoomTowards(c, centerX, centerY, newScale)
       IN  NotifyTransformChange(
             [z EXCEPT !.offsetX = Add(z.offsetX, Sub(center.x, c.lastTouchCenter.x)),
                       !.offsetY = Add(z.offsetY, Sub(center.y, c.lastTouchCenter.y)),
                       !.lastTouchDistance = distance,
                       !.lastTouchCenter = center])
  ELSE c

CanvasHandleTouchEnd(c) == [c EXCEPT !.isDragging = FALSE]

\* A variant that moves the current offset by half the canvas size.
CanvasResetView_Relative(c) ==
  NotifyTransformChange(
    [c EXCEPT !.scale = R(1),
              !.offsetX = Add(c.offsetX, Div(R(CanvasWidth), R(2))),
              !.offsetY = Add(c.offsetY, Div(R(CanvasHeight), R(2)))])

CanvasResetView(c) ==
  NotifyTransformChange(
    [c EXCEPT !.scale = R(1),
              !.offsetX = Div(R(CanvasWidth), R(2)),
              !.offsetY = Div(R(CanvasHeight), R(2))])

CanvasSetPanEnabled(c, enabled) == [c EXCEPT !.isPanEnabled = enabled]

(***************************************************************************)
(* Shape: a shape object is a record; its id is its identity.              *)
(***************************************************************************)
\* The style a shape has when none is given.
DefaultStyle ==
  [fillColor |-> "#4a90d9", strokeColor |-> "#2a6bb8", strokeWidth |-> 2, opacity |-> 1]

\* { ...style, ...partial }: the fields of partial over those of style.
MergeStyle(style, partial) ==
  [f \in DOMAIN style |-> IF f \in DOMAIN partial THEN partial[f] ELSE style[f]]

NewShape(id, type, x, y, width, height, style) ==
  [id |-> id, type |-> type, x |-> x, y |-> y,
   width |-> width, height |-> height, isSelected |-> FALSE,
   style |-> MergeStyle(DefaultStyle, style)]

ShapeSetStyle(sh, style) == [sh EXCEPT !.style = MergeStyle(sh.style, style)]

Geometry(sh) == <<sh.x, sh.y, sh.width, sh.height>>

ShapeMove(sh, dx, dy) == [sh EXCEPT !.x = Add(sh.x, dx), !.y = Add(sh.y, dy)]

ShapeSetPosition(sh, x, y) == [sh EXCEPT !.x = x, !.y = y]

ShapeSetSize(sh, width, height) ==
  [sh EXCEPT !.width = MathMax(R(10), width), !.height = MathMax(R(10), height)]

GetHandles(sh) ==
  LET x == sh.x
      y == sh.y
      hw == Div(sh.width, R(2))
      hh == Div(sh.height, R(2))
  IN  << [handle |-> "top-left", x |-> x, y |-> y],
         [handle |-> "top-center", x |-> Add(x, hw), y |-> y],
         [handle |-> "top-right", x |-> Add(x, sh.width), y |-> y],
         [handle |-> "middle-left", x |-> x, y |-> Add(y, hh)],
         [handle |-> "middle-right", x |-> Add(x, sh.width), y |-> Add(y, hh)],
         [handle |-> "bottom-left", x |-> x, y |-> Add(y, sh.height)],
         [handle |-> "bottom-center", x |-> Add(x, hw), y |-> Add(y, sh.height)],
         [handle |-> "bottom-right", x |-> Add(x, sh.width), y |-> Add(y, sh.height)] >>

Handles ==
  {"top-left", "top-center", "top-right", "middle-left", "middle-right",
   "bottom-left", "bottom-center", "bottom-right"}

\* handle.includes('left'), handle.includes('top')
IncludesLeft(handle) == handle \in {"top-left", "middle-left", "bottom-left"}

IncludesTop(handle) == handle \in {"top-left", "top-center", "top-right"}

\* The switch of resizeByHandle: the handle's effect before the minimum size.
ResizeSwitch(sh, handle, d) ==
  CASE handle = "top-left" ->
         [sh EXCEPT !.x = Add(sh.x, d.x), !.y = Add(sh.y, d.y),
                    !.width = Sub(sh.width, d.x), !.height = Sub(sh.height, d.y)]
    [] handle = "top-center" ->
         [sh EXCEPT !.y = Add(sh.y, d.y), !.height = Sub(sh.height, d.y)]
    [] handle = "top-right" ->
         [sh EXCEPT !.y = Add(sh.y, d.y),
                    !.width = Add(sh.width, d.x), !.height = Sub(sh.height, d.y)]
    [] handle = "middle-left" ->
         [sh EXCEPT !.x = Add(sh.x, d.x), !.width = Sub(sh.width, d.x)]
    [] handle = "middle-right" ->
         [sh EXCEPT !.width = Add(sh.width, d.x)]
    [] handle = "bottom-left" ->
         [sh EXCEPT !.x = Add(sh.x, d.x),
                    !.width = Sub(sh.width, d.x), !.height = Add(sh.height, d.y)]
    [] handle = "bottom-center" ->
         [sh EXCEPT !.height = Add(sh.height, d.y)]
    [] handle = "bottom-right" ->
         [sh EXCEPT !.width = Add(sh.width, d.x), !.height = Add(sh.height, d.y)]
    [] OTHER -> sh

\* A variant that enforces the minimum without moving the position.
ResizeEnsureMin_NoCompensation(sh, handle) ==
  [sh EXCEPT !.width = IF Lt(sh.width, R(10)) THEN R(10) ELSE sh.width,
             !.height = IF Lt(sh.height, R(10)) THEN R(10) ELSE sh.height]

\* A variant that enforces the minimum on the width only.
ResizeEnsureMin_WidthOnly(sh, handle) ==
  IF Lt(sh.width, R(10))
  THEN [sh EXCEPT !.x = IF IncludesLeft(handle)
                        THEN Sub(sh.x, Sub(R(10), sh.width))
                        ELSE sh.x,
                  !.width = R(10)]
  ELSE sh

\* The minimum size (10 x 10) enforced after the switch.
ResizeEnsureMin(sh, handle) ==
  LET s1 == IF Lt(sh.width, R(10))
            THEN [sh EXCEPT !.x = IF IncludesLeft(handle)
                                   THEN Sub(sh.x, Sub(R(10), sh.width))
                                   ELSE sh.x,
                            !.width = R(10)]
            ELSE sh
  IN  IF Lt(s1.height, R(10))
      THEN [s1 EXCEPT !.y = IF IncludesTop(handle)
                            THEN Sub(s1.y, Sub(R(10), s1.height))
                            ELSE s1.y,
                      !.height = R(10)]
      ELSE s1

ShapeResizeByHandle(sh, handle, d) == ResizeEnsureMin(ResizeSwitch(sh, handle, d), handle)

\* Math.sqrt(v) <= t, decided on the squares.
SqrtLe(v, t) == Le(R(0), t) /\ Le(v, Mul(t, t))

RECURSIVE FirstHandleWithin(_, _, _, _)
FirstHandleWithin(hs, k, p, tolerance) ==
  IF k > Len(hs) THEN NoHandle
  ELSE LET dx == Sub(p.x, hs[k].x)
           dy == Sub(p.y, hs[k].y)
       IN  IF SqrtLe(Add(Mul(dx, dx), Mul(dy, dy)), tolerance)
           THEN hs[k].handle
           ELSE FirstHandleWithin(hs, k + 1, p, tolerance)

GetHandleAtPoint(sh, p, tolerance) == FirstHandleWithin(GetHandles(sh), 1, p, tolerance)

RectangleContainsPoint(sh, p) ==
  /\ Le(sh.x, p.x)
  /\ Le(p.x, Add(sh.x, sh.width))
  /\ Le(sh.y, p.y)
  /\ Le(p.y, Add(sh.y, sh.height))

\* A variant that takes a radius of 0 for a radius of 1.
CircleContainsPoint_UnitRadius(sh, p) ==
  LET centerX == Add(sh.x, Div(sh.width, R(2)))
      centerY == Add(sh.y, Div(sh.height, R(2)))
      radiusX == IF sh.width = R(0) THEN R(1) ELSE Div(sh.width, R(2))
      radiusY == IF sh.height = R(0) THEN R(1) ELSE Div(sh.height, R(2))
      dx == Div(Sub(p.x, centerX), radiusX)
      dy == Div(Sub(p.y, centerY), radiusY)
  IN  Le(Add(Mul(dx, dx), Mul(dy, dy)), R(1))

CircleContainsPoint(sh, p) ==
  LET centerX == Add(sh.x, Div(sh.width, R(2)))
      centerY == Add(sh.y, Div(sh.height, R(2)))
      radiusX == Div(sh.width, R(2))
      radiusY == Div(sh.height, R(2))
      dx == Div(Sub(p.x, centerX), radiusX)
      dy == Div(Sub(p.y, centerY), radiusY)
  IN  Le(Add(Mul(dx, dx), Mul(dy, dy)), R(1))

TriangleSign(p, v1, v2) ==
  Sub(Mul(Sub(p.x, v2.x), Sub(v1.y, v2.y)), Mul(Sub(v1.x, v2.x), Sub(p.y, v2.y)))

TriangleContainsPoint(sh, p) ==
  LET p1 == Pt(Add(sh.x, Div(sh.width, R(2))), sh.y)
      p2 == Pt(sh.x, Add(sh.y, sh.height))
      p3 == Pt(Add(sh.x, sh.width), Add(sh.y, sh.height))
      d1 == TriangleSign(p, p1, p2)
      d2 == TriangleSign(p, p2, p3)
      d3 == TriangleSign(p, p3, p1)
      hasNeg == Lt(d1, R(0)) \/ Lt(d2, R(0)) \/ Lt(d3, R(0))
      hasPos == Lt(R(0), d1) \/ Lt(R(0), d2) \/ Lt(R(0), d3)
  IN  ~(hasNeg /\ hasPos)

ContainsPoint(sh, p) ==
  CASE sh.type = "circle" -> CircleContainsPoint(sh, p)
    [] sh.type = "triangle" -> TriangleContainsPoint(sh, p)
    [] OTHER -> RectangleContainsPoint(sh, p)

(***************************************************************************)
(* ShapeManager: the store.  shapes is the ordered collection (ids, bottom *)
(* first), selectedShape the selected-shape reference, objs the shape      *)
(* objects by id (an object can outlive its place in the collection while  *)
(* a reference to it is held).  onSelectionChange stands for the           *)
(* registered callback: the number of times it was called by the event     *)
(* being handled.                                                          *)
(***************************************************************************)
ShapeTypes == {"rectangle", "circle", "triangle"}

StoreInit ==
  [shapes |-> <<>>, selectedShape |-> NULL, currentShapeType |-> "rectangle",
   currentStyle |-> DefaultStyle,
   objs |-> <<>>, onSelectionChange |-> 0]

NotifySelectionChange(s) == [s EXCEPT !.onSelectionChange = @ + 1]

ShapesOf(s) == {s.shapes[k] : k \in 1..Len(s.shapes)}

InStore(s, id) == \E k \in 1..Len(s.shapes) : s.shapes[k] = id

\* findIndex / indexOf: the first index of id, 0 when absent.
IndexOf(s, id) ==
  IF InStore(s, id)
  THEN CHOOSE k \in 1..Len(s.shapes) :
         s.shapes[k] = id /\ \A j \in 1..(k - 1) : s.shapes[j] # id
  ELSE 0

\* splice(index, 1)
RemoveAt(seq, index) ==
  [k \in 1..(Len(seq) - 1) |-> IF k < index THEN seq[k] ELSE seq[k + 1]]

\* generateId: an id that no shape object in use has (the least such number:
\* an id is only ever compared with the ids of objects in use).
GenerateId(s) ==
  CHOOSE id \in 1..(Cardinality(DOMAIN s.objs) + 1) :
    /\ id \notin DOMAIN s.objs
    /\ \A j \in 1..(id - 1) : j \in DOMAIN s.objs

\* The new shape's id is GenerateId(s).
CreateShape(s, x, y, width, height) ==
  LET id == GenerateId(s)
      sh == NewShape(id, s.currentShapeType, x, y, width, height, s.currentStyle)
  IN  [s EXCEPT !.objs = [k \in (DOMAIN s.objs) \cup {id} |->
                           IF k = id THEN sh ELSE s.objs[k]],
                !.shapes = Append(s.shapes, id)]

\* A variant that clears the selected-shape reference and leaves the flags.
DeselectAll_KeepFlags(s) == NotifySelectionChange([s EXCEPT !.selectedShape = NULL])

DeselectAll(s) ==
  NotifySelectionChange(
    [s EXCEPT !.objs = [id \in DOMAIN s.objs |->
                          IF InStore(s, id)
                          THEN [s.objs[id] EXCEPT !.isSelected = FALSE]
                          ELSE s.objs[id]],
              !.selectedShape = NULL])

\* A variant that leaves the earlier selection's flag set.
SelectShape_NoDeselect(s, id) ==
  NotifySelectionChange([s EXCEPT !.objs[id].isSelected = TRUE, !.selectedShape = id])

SelectShape(s, id) ==
  LET s1 == DeselectAll(s)
  IN  NotifySelectionChange([s1 EXCEPT !.objs[id].isSelected = TRUE, !.selectedShape = id])

RemoveShape(s, shapeId) ==
  LET index == IndexOf(s, shapeId)
  IN  IF index # 0
      THEN LET s1 == IF s.selectedShape = shapeId THEN DeselectAll(s) ELSE s
           IN  [s1 EXCEPT !.shapes = RemoveAt(s1.shapes, index)]
      ELSE s

\* A variant that scans the collection from the bottom: the first shape
\* containing the point, in insertion order.
GetShapeAtPoint_BottomFirst(s, worldPoint) ==
  IF \E k \in 1..Len(s.shapes) : ContainsPoint(s.objs[s.shapes[k]], worldPoint)
  THEN s.shapes[CHOOSE k \in 1..Len(s.shapes) :
                  /\ ContainsPoint(s.objs[s.shapes[k]], worldPoint)
                  /\ \A j \in 1..(k - 1) : ~ContainsPoint(s.objs[s.shapes[j]], worldPoint)]
  ELSE NULL

RECURSIVE TopmostContaining(_, _, _)
TopmostContaining(s, i, worldPoint) ==
  IF i < 1 THEN NULL
  ELSE IF ContainsPoint(s.objs[s.shapes[i]], worldPoint) THEN s.shapes[i]
  ELSE TopmostContaining(s, i - 1, worldPoint)

GetShapeAtPoint(s, worldPoint) == TopmostContaining(s, Len(s.shapes), worldPoint)

\* A variant that removes the topmost shape when none is selected.
DeleteSelected_TopWhenNone(s) ==
  IF s.selectedShape # NULL THEN RemoveShape(s, s.selectedShape)
  ELSE IF Len(s.shapes) > 0 THEN RemoveShape(s, s.shapes[Len(s.shapes)])
  ELSE s

DeleteSelected(s) ==
  IF s.selectedShape # NULL THEN RemoveShape(s, s.selectedShape) ELSE s

\* A variant that pushes the selected shape without taking it out first.
BringToFront_NoSplice(s) ==
  IF s.selectedShape = NULL THEN s
  ELSE LET index == IndexOf(s, s.selectedShape)
       IN  IF index # 0 /\ index # Len(s.shapes)
           THEN [s EXCEPT !.shapes = Append(s.shapes, s.selectedShape)]
           ELSE s

BringToFront(s) ==
  IF s.selectedShape = NULL THEN s
  ELSE LET index == IndexOf(s, s.selectedShape)
       IN  IF index # 0 /\ index # Len(s.shapes)
           THEN [s EXCEPT !.shapes = Append(RemoveAt(s.shapes, index), s.selectedShape)]
           ELSE s

SendToBack(s) ==
  IF s.selectedShape = NULL THEN s
  ELSE LET index == IndexOf(s, s.selectedShape)
       IN  IF index # 0 /\ index # 1
           THEN [s EXCEPT !.shapes = <<s.selectedShape>> \o RemoveAt(s.shapes, index)]
           ELSE s

SetShapeType(s, type) == [s EXCEPT !.currentShapeType = type]

SetStyle(s, style) == [s EXCEPT !.currentStyle = MergeStyle(s.currentStyle, style)]

ApplyStyleToSelected(s, style) ==
  LET s1 == IF s.selectedShape # NULL
            THEN [s EXCEPT !.objs[s.selectedShape] = ShapeSetStyle(@, style)]
            ELSE s
  IN  SetStyle(s1, style)

(***************************************************************************)
(* InteractionManager: the gesture state machine.  The handlers take and   *)
(* return the triple st = [c, i, s] of the canvas, the interaction         *)
(* manager's fields and the store.                                         *)
(***************************************************************************)
Modes == {"select", "pan", "draw"}

IMInit ==
  [mode |-> "select",
   isDragging |-> FALSE, isResizing |-> FALSE, isDrawing |-> FALSE, isPanning |-> FALSE,
   dragStartWorld |-> Pt(R(0), R(0)),
   activeHandle |-> NoHandle, drawingShape |-> NULL,
   handleTolerance |-> R(10),
   onModeChange |-> 0]

\* getMousePosition: the event's point in world coordinates.
GetMouseWorld(c, e) ==
  ScreenToWorld(c, Pt(Sub(e.x, R(RectLeft)), Sub(e.y, R(RectTop))))

\* (onModeChange: the number of calls of the registered callback by the event
\* being handled.)
IMSetMode(st, mode) ==
  [st EXCEPT !.i.mode = mode, !.c = CanvasSetPanEnabled(st.c, mode = "pan"),
             !.i.onModeChange = @ + 1]

\* A variant that tests the shapes before the handles of the selected shape.
HandleSelectMouseDown_ShapeFirst(st, world) ==
  LET selectedShape == st.s.selectedShape
      handle == IF selectedShape # NULL
                THEN GetHandleAtPoint(st.s.objs[selectedShape], world, st.i.handleTolerance)
                ELSE NoHandle
      shape == GetShapeAtPoint(st.s, world)
  IN  IF shape # NULL
      THEN [st EXCEPT !.s = SelectShape(st.s, shape), !.i.isDragging = TRUE]
      ELSE IF handle # NoHandle
      THEN [st EXCEPT !.i.isResizing = TRUE, !.i.activeHandle = handle]
      ELSE [st EXCEPT !.s = DeselectAll(st.s), !.i.isPanning = TRUE]

\* A variant that drags the shape already selected, when there is one, in
\* place of the shape under the pointer.
HandleSelectMouseDown_KeepSelection(st, world) ==
  LET selectedShape == st.s.selectedShape
      handle == IF selectedShape # NULL
                THEN GetHandleAtPoint(st.s.objs[selectedShape], world, st.i.handleTolerance)
                ELSE NoHandle
      shape == GetShapeAtPoint(st.s, world)
  IN  IF handle # NoHandle
      THEN [st EXCEPT !.i.isResizing = TRUE, !.i.activeHandle = handle]
      ELSE IF shape # NULL
      THEN [st EXCEPT !.s = IF selectedShape # NULL THEN st.s ELSE SelectShape(st.s, shape),
                      !.i.isDragging = TRUE]
      ELSE [st EXCEPT !.s = DeselectAll(st.s), !.i.isPanning = TRUE]

HandleSelectMouseDown(st, world) ==
  LET selectedShape == st.s.selectedShape
      handle == IF selectedShape # NULL
                THEN GetHandleAtPoint(st.s.objs[selectedShape], world, st.i.handleTolerance)
                ELSE NoHandle
      shape == GetShapeAtPoint(st.s, world)
  IN  IF handle # NoHandle
      THEN [st EXCEPT !.i.isResizing = TRUE, !.i.activeHandle = handle]
      ELSE IF shape # NULL
      THEN [st EXCEPT !.s = SelectShape(st.s, shape), !.i.isDragging = TRUE]
      ELSE [st EXCEPT !.s = DeselectAll(st.s), !.i.isPanning = TRUE]

HandleDrawMouseDown(st, world) ==
  [st EXCEPT !.i.isDrawing = TRUE,
             !.i.drawingShape = GenerateId(st.s),
             !.s = CreateShape(st.s, world.x, world.y, R(1), R(1))]

\* A variant whose tolerance is 10 world units at every scale.
IMHandleMouseDown_WorldTolerance(st, e) ==
  IF e.button # 0 THEN st
  ELSE LET world == GetMouseWorld(st.c, e)
           st1 == [st EXCEPT !.i.dragStartWorld = world,
                             !.i.handleTolerance = R(10)]
       IN  CASE st1.i.mode = "select" -> HandleSelectMouseDown(st1, world)
             [] st1.i.mode = "draw" -> HandleDrawMouseDown(st1, world)
             [] st1.i.mode = "pan" -> [st1 EXCEPT !.i.isPanning = TRUE]

IMHandleMouseDown(st, e) ==
  IF e.button # 0 THEN st
  ELSE LET world == GetMouseWorld(st.c, e)
           st1 == [st EXCEPT !.i.dragStartWorld = world,
                             !.i.handleTolerance = Div(R(10), st.c.scale)]
       IN  CASE st1.i.mode = "select" -> HandleSelectMouseDown(st1, world)
             [] st1.i.mode = "draw" -> HandleDrawMouseDown(st1, world)
             [] st1.i.mode = "pan" -> [st1 EXCEPT !.i.isPanning = TRUE]

HandleDragMove(st, world) ==
  LET selectedShape == st.s.selectedShape
  IN  IF selectedShape = NULL THEN st
      ELSE LET dx == Sub(world.x, st.i.dragStartWorld.x)
               dy == Sub(world.y, st.i.dragStartWorld.y)
           IN  [st EXCEPT !.s.objs[selectedShape] = ShapeMove(@, dx, dy),
                          !.i.dragStartWorld = world]

HandleResizeMove(st, world) ==
  LET selectedShape == st.s.selectedShape
  IN  IF selectedShape = NULL \/ st.i.activeHandle = NoHandle THEN st
      ELSE LET delta == Pt(Sub(world.x, st.i.dragStartWorld.x),
                           Sub(world.y, st.i.dragStartWorld.y))
           IN  [st EXCEPT !.s.objs[selectedShape] =
                             ShapeResizeByHandle(@, st.i.activeHandle, delta),
                          !.i.dragStartWorld = world]

\* A variant that stores the pointer's travel as the size, without the minimum.
HandleDrawMove_RawSize(st, world) ==
  IF st.i.drawingShape = NULL THEN st
  ELSE LET width0 == Sub(world.x, st.i.dragStartWorld.x)
           height0 == Sub(world.y, st.i.dragStartWorld.y)
           flipX == Lt(width0, R(0))
           flipY == Lt(height0, R(0))
           x == IF flipX THEN world.x ELSE st.i.dragStartWorld.x
           y == IF flipY THEN world.y ELSE st.i.dragStartWorld.y
           width == IF flipX THEN Neg(width0) ELSE width0
           height == IF flipY THEN Neg(height0) ELSE height0
       IN  [st EXCEPT !.s.objs[st.i.drawingShape] =
                         [ShapeSetPosition(@, x, y) EXCEPT !.width = width,
                                                           !.height = height]]

\* A variant that keeps the pointer-down point as the corner when the pointer
\* moves left or up.
HandleDrawMove_NoFlip(st, world) ==
  IF st.i.drawingShape = NULL THEN st
  ELSE LET width0 == Sub(world.x, st.i.dragStartWorld.x)
           height0 == Sub(world.y, st.i.dragStartWorld.y)
           width == IF Lt(width0, R(0)) THEN Neg(width0) ELSE width0
           height == IF Lt(height0, R(0)) THEN Neg(height0) ELSE height0
       IN  [st EXCEPT !.s.objs[st.i.drawingShape] =
                         ShapeSetSize(ShapeSetPosition(@, st.i.dragStartWorld.x,
                                                       st.i.dragStartWorld.y),
                                      MathMax(R(10), width), MathMax(R(10), height))]

HandleDrawMove(st, world) ==
  IF st.i.drawingShape = NULL THEN st
  ELSE LET width0 == Sub(world.x, st.i.dragStartWorld.x)
           height0 == Sub(world.y, st.i.dragStartWorld.y)
           flipX == Lt(width0, R(0))
           flipY == Lt(height0, R(0))
           x == IF flipX THEN world.x ELSE st.i.dragStartWorld.x
           y == IF flipY THEN world.y ELSE st.i.dragStartWorld.y
           width == IF flipX THEN Neg(width0) ELSE width0
           height == IF flipY THEN Neg(height0) ELSE height0
       IN  [st EXCEPT !.s.objs[st.i.drawingShape] =
                         ShapeSetSize(ShapeSetPosition(@, x, y),
                                      MathMax(R(10), width), MathMax(R(10), height))]

IMHandleMouseMove(st, e) ==
  LET world == GetMouseWorld(st.c, e)
  IN  IF st.i.isPanning THEN st
      ELSE IF st.i.isDragging THEN HandleDragMove(st, world)
      ELSE IF st.i.isResizing THEN HandleResizeMove(st, world)
      ELSE IF st.i.isDrawing /\ st.i.drawingShape # NULL THEN HandleDrawMove(st, world)
      ELSE st

\* A variant that goes to the select mode when it discards the shape too.
FinishDrawing_SelectAlways(st) ==
  LET sh == st.s.objs[st.i.drawingShape]
  IN  IF Lt(sh.width, R(10)) \/ Lt(sh.height, R(10))
      THEN IMSetMode([st EXCEPT !.s = RemoveShape(st.s, sh.id)], "select")
      ELSE IMSetMode([st EXCEPT !.s = SelectShape(st.s, sh.id)], "select")

\* The outcome of a Drawing gesture at pointer-up.
FinishDrawing(st) ==
  LET sh == st.s.objs[st.i.drawingShape]
  IN  IF Lt(sh.width, R(10)) \/ Lt(sh.height, R(10))
      THEN [st EXCEPT !.s = RemoveShape(st.s, sh.id)]
      ELSE IMSetMode([st EXCEPT !.s = SelectShape(st.s, sh.id)], "select")

\* A variant that forgets to clear the Panning flag.
ResetInteraction_KeepPanning(i) ==
  [i EXCEPT !.isDragging = FALSE, !.isResizing = FALSE, !.isDrawing = FALSE,
            !.activeHandle = NoHandle, !.drawingShape = NULL]

\* The reset of the interaction state at pointer-up and pointer-leave.
ResetInteraction(i) ==
  [i EXCEPT !.isDragging = FALSE, !.isResizing = FALSE,
            !.isDrawing = FALSE, !.isPanning = FALSE,
            !.activeHandle = NoHandle, !.drawingShape = NULL]

IMHandleMouseUp(st) ==
  LET st1 == IF st.i.isDrawing /\ st.i.drawingShape # NULL THEN FinishDrawing(st) ELSE st
  IN  [st1 EXCEPT !.i = ResetInteraction(st1.i)]

Keys == {"Delete", "Backspace", "Escape"}

\* A variant in which Escape deletes the selected shape as Delete does.
IMHandleKeyDown_EscapeDeletes(st, key) ==
  LET st1 == IF key \in {"Delete", "Backspace", "Escape"}
             THEN [st EXCEPT !.s = DeleteSelected(st.s)]
             ELSE st
  IN  IF key = "Escape"
      THEN IMSetMode([st1 EXCEPT !.s = DeselectAll(st1.s)], "select")
      ELSE st1

IMHandleKeyDown(st, key) ==
  LET st1 == IF key = "Delete" \/ key = "Backspace"
             THEN [st EXCEPT !.s = DeleteSelected(st.s)]
             ELSE st
  IN  IF key = "Escape"
      THEN IMSetMode([st1 EXCEPT !.s = DeselectAll(st1.s)], "select")
      ELSE st1

(***************************************************************************)
(* The state machine.  One DOM event runs the canvas's listener and then   *)
(* the interaction manager's (the order in which they were registered on   *)
(* the same element).                                                      *)
(***************************************************************************)
VARIABLES canvas, im, sm

vars == <<canvas, im, sm>>

\* Bounds of the specification Spec: shape objects in use at a time, and
\* gestures already active when a pointer-down arrives.
MaxShapes == 1

MaxOverlap == 1

\* Pointer positions (clientX, clientY) the events of Spec are drawn from.
ScreenPoints == {<<10, 10>>, <<5, 5>>, <<100, 80>>}

\* Spec explores the gestures on shapes under the viewport of construction.
SpecBounds ==
  [shapes |-> MaxShapes, overlap |-> MaxOverlap, points |-> ScreenPoints,
   buttons |-> {0}, modes |-> Modes, view |-> FALSE]

\* SpecView explores the viewport: the select and pan modes over an empty
\* store, every pointer-down in Idle, the offset within MaxViewOffset.
MaxViewOffset == 10

ViewPoints == {<<10, 10>>, <<20, 10>>}

\* The scales explored: the two limits, 1 and 2.
ViewScales == {MinScale, R(1), R(2), MaxScale}

ViewBounds ==
  [shapes |-> 0, overlap |-> 0, points |-> ViewPoints,
   buttons |-> {0, 1}, modes |-> {"select", "pan"}, view |-> TRUE]

\* The shape geometries explored: the top-left corner at a pointer position;
\* the size the 1 x 1 of a shape just created, one that a draw gesture between
\* two pointer positions gives, or the 5 x 5 of a gesture from (10,10) to (5,5)
\* whose size is not raised to the minimum.
Origins == {<<R(p[1]), R(p[2])>> : p \in ScreenPoints \cup ViewPoints}

Sizes == {<<R(1), R(1)>>, <<R(5), R(5)>>, <<R(10), R(10)>>, <<R(90), R(70)>>}

MouseEvent(p, button) == [x |-> R(p[1]), y |-> R(p[2]), button |-> button]

Cur == [c |-> canvas, i |-> im, s |-> sm]

\* Shape objects no longer referenced (neither in the collection, nor selected,
\* nor being drawn) are dropped: nothing can reach them.
Live(st) ==
  {id \in DOMAIN st.s.objs :
     InStore(st.s, id) \/ id = st.s.selectedShape \/ id = st.i.drawingShape}

Collect(st) == [st EXCEPT !.s.objs = [id \in Live(st) |-> st.s.objs[id]]]

NumWithin(a, bound) == IsNaN(a) \/ (IsFinite(a) /\ Le(R(-bound), a) /\ Le(a, R(bound)))

SameView(c, d) == c.scale = d.scale /\ c.offsetX = d.offsetX /\ c.offsetY = d.offsetY

\* The part of the state space explored under the bounds b.
Bounded(st, b) ==
  /\ Cardinality(Live(st)) <= b.shapes
  /\ IF b.view
     THEN /\ st.c.scale \in ViewScales \cup {NaN}
          /\ NumWithin(st.c.offsetX, MaxViewOffset)
          /\ NumWithin(st.c.offsetY, MaxViewOffset)
     ELSE SameView(st.c, CanvasInit)
  /\ \A id \in Live(st) :
       /\ <<st.s.objs[id].x, st.s.objs[id].y>> \in Origins
       /\ <<st.s.objs[id].width, st.s.objs[id].height>> \in Sizes

\* The state once the event has been handled and its callbacks have run.
Handled(st) ==
  [c |-> [st.c EXCEPT !.onTransformChange = 0, !.onMouseMove = 0],
   i |-> [st.i EXCEPT !.onModeChange = 0],
   s |-> [Collect(st).s EXCEPT !.onSelectionChange = 0]]

Follow(st) ==
  /\ canvas' = Handled(st).c
  /\ im' = Handled(st).i
  /\ sm' = Handled(st).s

Become(st, b) ==
  /\ Bounded(st, b)
  /\ canvas' = Handled(st).c
  /\ im' = Handled(st).i
  /\ sm' = Handled(st).s

Init ==
  /\ canvas = CanvasInit
  /\ im = IMInit
  /\ sm = StoreInit

\* The canvas element carries the listeners of InfiniteCanvas, registered
\* first, and those of InteractionManager: a mouse event runs both in order.
OnMouseDown(st, e) == IMHandleMouseDown([st EXCEPT !.c = CanvasHandleMouseDown(st.c, e)], e)

OnMouseMove(st, e) == IMHandleMouseMove([st EXCEPT !.c = CanvasHandleMouseMove(st.c, e)], e)

OnMouseUp(st) == IMHandleMouseUp([st EXCEPT !.c = CanvasHandleMouseUp(st.c)])

ActiveGestures(i) ==
  {f \in {"isDragging", "isResizing", "isDrawing", "isPanning"} : i[f]}

MouseDown(b) ==
  /\ Cardinality(ActiveGestures(im)) <= b.overlap
  /\ \E p \in b.points, button \in b.buttons :
       Become(OnMouseDown(Cur, MouseEvent(p, button)), b)

MouseMove(b) == \E p \in b.points : Become(OnMouseMove(Cur, MouseEvent(p, 0)), b)

MouseUp(b) == Become(OnMouseUp(Cur), b)

MouseLeave(b) == Become(OnMouseUp(Cur), b)

KeyDown(b) == \E key \in Keys : Become(IMHandleKeyDown(Cur, key), b)

SetMode(b) == \E mode \in b.modes : Become(IMSetMode(Cur, mode), b)

DeleteButton(b) == Become([Cur EXCEPT !.s = DeleteSelected(sm)], b)

Machine(b) ==
  \/ MouseDown(b)
  \/ MouseMove(b)
  \/ MouseUp(b)
  \/ MouseLeave(b)
  \/ KeyDown(b)
  \/ SetMode(b)
  \/ DeleteButton(b)

Next == Machine(SpecBounds)

Spec == Init /\ [][Next]_vars

(***************************************************************************)
(* SpecView: the same machine with the viewport operations.                *)
(***************************************************************************)
\* Math.exp(-deltaY * zoomSensitivity) is positive; it underflows to 0 and
\* overflows to Infinity.
ZoomFactors == {<<1, 2>>, R(2), R(0), PosInf}

\* The wheel turns over one point.
WheelPoints == {<<10, 10>>}

\* One finger, and two fingers at a distance of 0 or 20.
TouchPoints == {<<10, 10>>, <<30, 10>>}

Touch(p) == Pt(R(p[1]), R(p[2]))

TouchLists ==
  {<<Touch(p)>> : p \in WheelPoints}
    \cup {<<Touch(<<10, 10>>), Touch(q)>> : q \in TouchPoints}

Wheel ==
  \E p \in WheelPoints, zoomFactor \in ZoomFactors :
    Become([Cur EXCEPT !.c = CanvasHandleWheel(canvas, MouseEvent(p, 0), zoomFactor)],
           ViewBounds)

TouchStart ==
  \E touches \in TouchLists :
    Become([Cur EXCEPT !.c = CanvasHandleTouchStart(canvas, touches)], ViewBounds)

TouchMove ==
  \E touches \in TouchLists :
    Become([Cur EXCEPT !.c = CanvasHandleTouchMove(canvas, touches)], ViewBounds)

TouchEnd == Become([Cur EXCEPT !.c = CanvasHandleTouchEnd(canvas)], ViewBounds)

ResetView == Become([Cur EXCEPT !.c = CanvasResetView(canvas)], ViewBounds)

NextView ==
  \/ Machine(ViewBounds)
  \/ Wheel
  \/ TouchStart
  \/ TouchMove
  \/ TouchEnd
  \/ ResetView

SpecView == Init /\ [][NextView]_vars

(***************************************************************************)
(* SpecStore: the same machine over two pointer positions, with the        *)
(* store's public commands.                                                *)
(***************************************************************************)
MaxStoreShapes == 2

StorePoints == {<<10, 10>>, <<100, 80>>}

StoreBounds ==
  [shapes |-> MaxStoreShapes, overlap |-> 0, points |-> StorePoints,
   buttons |-> {0}, modes |-> {"select", "draw"}, view |-> FALSE]

\* The sizes createShape is called with.
StoreSizes == {<<R(10), R(10)>>, <<R(90), R(70)>>}

CreateShapeCmd ==
  \E p \in StorePoints, size \in StoreSizes :
    Become([Cur EXCEPT !.s = CreateShape(sm, R(p[1]), R(p[2]), size[1], size[2])],
           StoreBounds)

SelectShapeCmd ==
  \E id \in DOMAIN sm.objs : Become([Cur EXCEPT !.s = SelectShape(sm, id)], StoreBounds)

DeselectAllCmd == Become([Cur EXCEPT !.s = DeselectAll(sm)], StoreBounds)

RemoveShapeCmd ==
  \E id \in DOMAIN sm.objs : Become([Cur EXCEPT !.s = RemoveShape(sm, id)], StoreBounds)

BringToFrontCmd == Become([Cur EXCEPT !.s = BringToFront(sm)], StoreBounds)

SendToBackCmd == Become([Cur EXCEPT !.s = SendToBack(sm)], StoreBounds)

NextStore ==
  \/ Machine(StoreBounds)
  \/ CreateShapeCmd
  \/ SelectShapeCmd
  \/ DeselectAllCmd
  \/ RemoveShapeCmd
  \/ BringToFrontCmd
  \/ SendToBackCmd

SpecStore == Init /\ [][NextStore]_vars

(***************************************************************************)
(* SpecPan: drawing and panning over two pointer positions, with the wheel *)
(* zoom: a shape under the pointer at several scales.                      *)
(***************************************************************************)
MaxPanShapes == 1

PanBounds ==
  [shapes |-> MaxPanShapes, overlap |-> 0, points |-> ViewPoints,
   buttons |-> {0}, modes |-> {"draw", "pan"}, view |-> TRUE]

PanWheel ==
  \E p \in WheelPoints, zoomFactor \in ZoomFactors :
    Become([Cur EXCEPT !.c = CanvasHandleWheel(canvas, MouseEvent(p, 0), zoomFactor)],
           PanBounds)

NextPan ==
  \/ Machine(PanBounds)
  \/ PanWheel

SpecPan == Init /\ [][NextPan]_vars

(***************************************************************************)
(* SpecFrame: the three modes over two pointer positions with the wheel    *)
(* zoom: the gestures on a shape under several transforms.                 *)
(***************************************************************************)
MaxFrameShapes == 1

FrameBounds ==
  [shapes |-> MaxFrameShapes, overlap |-> 0, points |-> ViewPoints,
   buttons |-> {0}, modes |-> Modes, view |-> TRUE]

FrameWheel ==
  \E p \in WheelPoints, zoomFactor \in ZoomFactors :
    Become([Cur EXCEPT !.c = CanvasHandleWheel(canvas, MouseEvent(p, 0), zoomFactor)],
           FrameBounds)

NextFrame ==
  \/ Machine(FrameBounds)
  \/ FrameWheel

SpecFrame == Init /\ [][NextFrame]_vars

(***************************************************************************)
(* SpecStyle: the styles.  Shapes are created, selected and deselected, and *)
(* styles are set for the shapes to come and applied to the selected shape. *)
(***************************************************************************)
MaxStyleShapes == 2

\* The partial styles passed to setStyle and applyStyleToSelected.
StylePartials ==
  {[fillColor |-> "#ff0000"], [strokeColor |-> "#00ff00"],
   [fillColor |-> "#4a90d9", strokeColor |-> "#2a6bb8"]}

StyleCreateShape ==
  /\ Len(sm.shapes) < MaxStyleShapes
  /\ Follow([Cur EXCEPT !.s = CreateShape(sm, R(0), R(0), R(100), R(100))])

StyleSelectShape ==
  \E id \in ShapesOf(sm) : Follow([Cur EXCEPT !.s = SelectShape(sm, id)])

StyleDeselectAll == Follow([Cur EXCEPT !.s = DeselectAll(sm)])

StyleSetStyle ==
  \E style \in StylePartials : Follow([Cur EXCEPT !.s = SetStyle(sm, style)])

StyleApplyToSelected ==
  \E style \in StylePartials : Follow([Cur EXCEPT !.s = ApplyStyleToSelected(sm, style)])

NextStyle ==
  \/ StyleCreateShape
  \/ StyleSelectShape
  \/ StyleDeselectAll
  \/ StyleSetStyle
  \/ StyleApplyToSelected

SpecStyle == Init /\ [][NextStyle]_vars

(***************************************************************************)
(* SpecOrder: the hit-test and the z-order.  The store starts with up to   *)
(* MaxOrderShapes shapes of any type put there by setShapeType and         *)
(* createShape; the pointer goes down and up in the select mode without    *)
(* moving, and the selected shape is brought to the front or sent to the   *)
(* back.                                                                   *)
(***************************************************************************)
MaxOrderShapes == 2

\* x, y, width, height: two overlapping boxes and a small one in the corner
\* of the first.
OrderGeometries ==
  {<<R(0), R(0), R(100), R(100)>>, <<R(50), R(50), R(100), R(100)>>,
   <<R(0), R(0), R(10), R(10)>>}

\* Pointer positions: in a corner of the first box, in the overlap of the two
\* boxes, near the bottom-right corner of the first box, outside every box.
HitPoints == {<<5, 5>>, <<75, 75>>, <<99, 99>>, <<200, 200>>}

\* The store after setShapeType(type) and createShape(x, y, width, height)
\* for each of the first k entries of f.
RECURSIVE StoreOf(_, _)
StoreOf(f, k) ==
  IF k = 0 THEN StoreInit
  ELSE LET type == f[k][1]
           g == f[k][2]
       IN  CreateShape(SetShapeType(StoreOf(f, k - 1), type), g[1], g[2], g[3], g[4])

OrderStores ==
  UNION {{StoreOf(f, n) : f \in [1..n -> ShapeTypes \X OrderGeometries]} :
           n \in 0..MaxOrderShapes}

InitOrder ==
  /\ canvas = CanvasInit
  /\ im = IMInit
  /\ sm \in OrderStores

OrderMouseDown ==
  /\ ActiveGestures(im) = {}
  /\ \E p \in HitPoints : Follow(OnMouseDown(Cur, MouseEvent(p, 0)))

OrderMouseUp == Follow(OnMouseUp(Cur))

OrderBringToFront == Follow([Cur EXCEPT !.s = BringToFront(sm)])

OrderSendToBack == Follow([Cur EXCEPT !.s = SendToBack(sm)])

NextOrder ==
  \/ OrderMouseDown
  \/ OrderMouseUp
  \/ OrderBringToFront
  \/ OrderSendToBack

SpecOrder == InitOrder /\ [][NextOrder]_vars

(***************************************************************************)
(* SpecResize: resizeByHandle called once, with each handle and a world    *)
(* delta, on the selected shape of a store of one shape.                   *)
(***************************************************************************)
\* x, y, width, height of the shape resized: 100 x 100 at the origin, one at
\* the minimum size, a narrow one, one with fractional sides.
ResizeGeometries ==
  {<<R(0), R(0), R(100), R(100)>>, <<R(20), R(20), R(10), R(10)>>,
   <<R(5), R(5), R(10), R(90)>>, <<R(-30), R(40), <<25, 2>>, <<41, 4>>>>}

\* The components of the world delta: past the opposite side either way, short
\* of it, null, fractional.
ResizeDeltas == {R(-200), R(-90), R(0), <<15, 2>>, R(200)}

ResizeStores ==
  {SelectShape(StoreOf(<<(<<type, g>>)>>, 1), 1) : type \in ShapeTypes, g \in ResizeGeometries}

InitResize ==
  /\ canvas = CanvasInit
  /\ im = IMInit
  /\ sm \in {Handled([c |-> CanvasInit, i |-> IMInit, s |-> store]).s : store \in ResizeStores}

ResizeByHandleCmd ==
  /\ Geometry(sm.objs[sm.selectedShape]) \in ResizeGeometries
  /\ \E handle \in Handles, dx \in ResizeDeltas, dy \in ResizeDeltas :
       Follow([Cur EXCEPT !.s.objs[sm.selectedShape] =
                              ShapeResizeByHandle(@, handle, Pt(dx, dy))])

NextResize == ResizeByHandleCmd

SpecResize == InitResize /\ [][NextResize]_vars

(***************************************************************************)
(* SpecClick: the machine in the select and draw modes with two shapes and *)
(* pointer-downs that arrive during a gesture.                             *)
(***************************************************************************)
MaxClickShapes == 2

MaxClickOverlap == 1

ClickPoints == {<<10, 10>>, <<100, 80>>}

ClickBounds ==
  [shapes |-> MaxClickShapes, overlap |-> MaxClickOverlap, points |-> ClickPoints,
   buttons |-> {0}, modes |-> {"select", "draw"}, view |-> FALSE]

NextClick == Machine(ClickBounds)

SpecClick == Init /\ [][NextClick]_vars

(***************************************************************************)
(* SpecEllipse: pointer gestures in select mode over stores of ellipses,   *)
(* some of them with a width or a height of 0.                             *)
(***************************************************************************)
MaxEllipseShapes == 2

\* x, y, width, height: a circle, an ellipse, and three ellipses of centre
\* (50,50) with a radius of 0.
EllipseGeometries ==
  {<<R(0), R(0), R(100), R(100)>>, <<R(0), R(0), R(100), R(50)>>,
   <<R(50), R(0), R(0), R(100)>>, <<R(0), R(50), R(100), R(0)>>,
   <<R(50), R(50), R(0), R(0)>>}

\* Pointer positions: the centre of the circle, inside its bounding box and
\* outside the circle, inside the circle near its edge, on its edge, the
\* centre of the ellipse, outside every box.
EllipsePoints ==
  {<<50, 50>>, <<99, 99>>, <<85, 85>>, <<100, 50>>, <<50, 25>>, <<110, 110>>}

EllipseStores ==
  UNION {{StoreOf(f, n) : f \in [1..n -> {"circle"} \X EllipseGeometries]} :
           n \in 0..MaxEllipseShapes}

InitEllipse ==
  /\ canvas = CanvasInit
  /\ im = IMInit
  /\ sm \in EllipseStores

EllipseMouseDown ==
  /\ ActiveGestures(im) = {}
  /\ \E p \in EllipsePoints : Follow(OnMouseDown(Cur, MouseEvent(p, 0)))

\* One move of the pointer, while no shape has been moved or resized yet.
EllipseMouseMove ==
  /\ \A id \in ShapesOf(sm) : Geometry(sm.objs[id]) \in EllipseGeometries
  /\ \E p \in EllipsePoints : Follow(OnMouseMove(Cur, MouseEvent(p, 0)))

EllipseMouseUp == Follow(OnMouseUp(Cur))

NextEllipse ==
  \/ EllipseMouseDown
  \/ EllipseMouseMove
  \/ EllipseMouseUp

SpecEllipse == InitEllipse /\ [][NextEllipse]_vars

(***************************************************************************)
(* Properties of the gesture machine (Spec).  A property of a handler is   *)
(* stated of the handler's result in every reachable state.                *)
(***************************************************************************)
IdleOf(i) ==
  /\ ActiveGestures(i) = {}
  /\ i.activeHandle = NoHandle
  /\ i.drawingShape = NULL

\* C1: in every reachable state at most one of the gesture flags Dragging,
\* Resizing, Drawing, Panning is set.
C1_AtMostOneGesture == Cardinality(ActiveGestures(im)) <= 1

\* C2: a pointer-up or pointer-leave, in whatever reachable state it is
\* received, ends in Idle: no gesture flag, no active handle, no drawing shape.
C2_UpLeavesIdle == IdleOf(OnMouseUp(Cur).i)

\* A pointer-up has ended a gesture that selected a shape.
C2_Witness ==
  /\ IdleOf(im)
  /\ sm.selectedShape # NULL
  /\ InStore(sm, sm.selectedShape)
  /\ im.mode = "select"

\* C4 as stated: every shape in the store is at least 10 x 10.
C4_SizeFloor ==
  \A id \in ShapesOf(sm) :
    Le(R(10), sm.objs[id].width) /\ Le(R(10), sm.objs[id].height)

\* C4, amended: every shape in the store is at least 10 x 10, or is still the
\* 1 x 1 it was created with at pointer-down in draw mode.
C4_SizeFloorOnceSized ==
  \A id \in ShapesOf(sm) :
    \/ Le(R(10), sm.objs[id].width) /\ Le(R(10), sm.objs[id].height)
    \/ sm.objs[id].width = R(1) /\ sm.objs[id].height = R(1)

\* A Drawing gesture from (10,10) to (5,5) has raised the size to the minimum.
C4_Witness ==
  /\ im.isDrawing
  /\ im.drawingShape \in ShapesOf(sm)
  /\ im.dragStartWorld = Pt(R(10), R(10))
  /\ Geometry(sm.objs[im.drawingShape]) = <<R(5), R(5), R(10), R(10)>>

\* The shape in progress of a Drawing gesture whose pointer went left of the
\* pointer-down point by less than 10.
C6_SmallTravel ==
  /\ im.mode = "draw"
  /\ ActiveGestures(im) = {"isDrawing"}
  /\ im.drawingShape \in ShapesOf(sm)
  /\ Lt(sm.objs[im.drawingShape].x, im.dragStartWorld.x)
  /\ Lt(Sub(im.dragStartWorld.x, sm.objs[im.drawingShape].x), R(10))

\* C6: the pointer-up of a draw gesture that travelled less than 10 removes the
\* shape (the store is as before the gesture), leaves the selection unchanged
\* and leaves the mode draw.
C6_SmallDrawDiscarded ==
  C6_SmallTravel =>
    LET st == OnMouseUp(Cur)
    IN  /\ st.s.shapes = RemoveAt(sm.shapes, IndexOf(sm, im.drawingShape))
        /\ st.s.selectedShape = sm.selectedShape
        /\ st.i.mode = "draw"

SameInteraction(i, j) ==
  /\ ActiveGestures(i) = ActiveGestures(j)
  /\ i.activeHandle = j.activeHandle
  /\ i.drawingShape = j.drawingShape
  /\ i.dragStartWorld = j.dragStartWorld

\* The shape collection and the selection: the order, the shapes' geometry and
\* flags, and the selected-shape reference.
SameStore(s, t) ==
  /\ s.shapes = t.shapes
  /\ \A id \in ShapesOf(s) : s.objs[id] = t.objs[id]
  /\ s.selectedShape = t.selectedShape

\* C12: an Escape key received when no shape is selected changes neither the
\* mode, nor the store and the selection, nor the interaction state.
C12_EscapeUnselectedNoop ==
  sm.selectedShape = NULL
    => LET st == IMHandleKeyDown(Cur, "Escape")
       IN  /\ st.i.mode = im.mode
           /\ SameStore(st.s, sm)
           /\ SameInteraction(st.i, im)

\* C13: an Escape key received while a shape is selected leaves no shape
\* selected and the mode select; the collection and every shape's geometry are
\* as before.
C13_EscapeClearsSelection ==
  sm.selectedShape # NULL
    => LET st == IMHandleKeyDown(Cur, "Escape")
       IN  /\ st.s.selectedShape = NULL
           /\ \A id \in ShapesOf(st.s) : ~st.s.objs[id].isSelected
           /\ st.i.mode = "select"
           /\ st.s.shapes = sm.shapes
           /\ \A id \in ShapesOf(sm) : Geometry(st.s.objs[id]) = Geometry(sm.objs[id])

\* A shape is selected in the pan mode.
C13_Witness ==
  /\ im.mode = "pan"
  /\ sm.selectedShape \in ShapesOf(sm)
  /\ sm.objs[sm.selectedShape].isSelected

\* C14: a Delete or Backspace key removes the selected shape from the
\* collection, keeps the other shapes in their order and leaves no shape
\* selected; with no shape selected it changes neither the store, nor the
\* selection, nor the mode, nor the interaction state.
C14_DeleteRemovesSelected ==
  \A key \in {"Delete", "Backspace"} :
    LET st == IMHandleKeyDown(Cur, key)
        Kept(id) == id # sm.selectedShape
    IN  IF sm.selectedShape # NULL
        THEN /\ st.s.shapes = SelectSeq(sm.shapes, Kept)
             /\ \A id \in ShapesOf(st.s) : st.s.objs[id] = sm.objs[id]
             /\ st.s.selectedShape = NULL
             /\ \A id \in ShapesOf(st.s) : ~st.s.objs[id].isSelected
        ELSE /\ SameStore(st.s, sm)
             /\ st.i.mode = im.mode
             /\ SameInteraction(st.i, im)

\* Each of the four callbacks was called at most once by the event that gave st.
FiredAtMostOnce(st) ==
  /\ st.c.onTransformChange <= 1
  /\ st.c.onMouseMove <= 1
  /\ st.i.onModeChange <= 1
  /\ st.s.onSelectionChange <= 1

\* C15: one pointer-down, pointer-move, pointer-up, key-down, wheel event,
\* setMode or delete, received in whatever reachable state, calls each of
\* onTransformChange, onMouseMove, onModeChange and onSelectionChange at most
\* once.
C15_CallbacksAtMostOnce ==
  /\ \A p \in ScreenPoints, button \in {0, 1} :
       /\ FiredAtMostOnce(OnMouseDown(Cur, MouseEvent(p, button)))
       /\ FiredAtMostOnce(OnMouseMove(Cur, MouseEvent(p, button)))
  /\ FiredAtMostOnce(OnMouseUp(Cur))
  /\ \A key \in Keys : FiredAtMostOnce(IMHandleKeyDown(Cur, key))
  /\ \A p \in WheelPoints, zoomFactor \in ZoomFactors :
       FiredAtMostOnce([Cur EXCEPT !.c = CanvasHandleWheel(canvas, MouseEvent(p, 0),
                                                           zoomFactor)])
  /\ \A mode \in Modes : FiredAtMostOnce(IMSetMode(Cur, mode))
  /\ FiredAtMostOnce([Cur EXCEPT !.s = DeleteSelected(sm)])

\* C16: a pointer-down and a pointer-move leave the mode unchanged, whatever
\* the state and the button; so does a pointer-up (or pointer-leave) unless it
\* commits a Drawing gesture, that is unless a shape is being drawn and is at
\* least 10 x 10.
C16_PointerKeepsMode ==
  /\ \A p \in ScreenPoints, button \in {0, 1, 2} :
       /\ OnMouseDown(Cur, MouseEvent(p, button)).i.mode = im.mode
       /\ OnMouseMove(Cur, MouseEvent(p, button)).i.mode = im.mode
  /\ LET committing ==
           /\ im.isDrawing
           /\ im.drawingShape # NULL
           /\ Le(R(10), sm.objs[im.drawingShape].width)
           /\ Le(R(10), sm.objs[im.drawingShape].height)
     IN  ~committing => OnMouseUp(Cur).i.mode = im.mode

\* A Drawing gesture in the draw mode whose shape is still 1 x 1: the
\* pointer-up discards it.
C16_Witness ==
  /\ im.mode = "draw"
  /\ ActiveGestures(im) = {"isDrawing"}
  /\ im.drawingShape \in ShapesOf(sm)
  /\ sm.objs[im.drawingShape].width = R(1)
  /\ sm.objs[im.drawingShape].height = R(1)

\* The pointer-moves to p1 and then to p2 drag the selected shape: the first
\* adds the pointer's travel since the last pointer event to its position and
\* records the pointer, the two together place it where the move to p2 alone
\* does, and nothing else of the store changes.
DragFollowsPointer(p1, p2) ==
  LET id == sm.selectedShape
      e1 == MouseEvent(p1, 0)
      e2 == MouseEvent(p2, 0)
      w1 == GetMouseWorld(canvas, e1)
      one == OnMouseMove(Cur, e1)
      two == OnMouseMove(one, e2)
      direct == OnMouseMove(Cur, e2)
  IN  /\ one.s.objs[id].x = Add(sm.objs[id].x, Sub(w1.x, im.dragStartWorld.x))
      /\ one.s.objs[id].y = Add(sm.objs[id].y, Sub(w1.y, im.dragStartWorld.y))
      /\ one.i.dragStartWorld = w1
      /\ one.s.objs[id].width = sm.objs[id].width
      /\ one.s.objs[id].height = sm.objs[id].height
      /\ two.s.objs[id] = direct.s.objs[id]
      /\ one.s.shapes = sm.shapes
      /\ one.s.selectedShape = id
      /\ DOMAIN one.s.objs = DOMAIN sm.objs
      /\ \A other \in DOMAIN sm.objs \ {id} : one.s.objs[other] = sm.objs[other]

\* C34: while Dragging is set and a shape is selected, every pointer-move
\* places the shape at its position plus the pointer's travel since the last
\* pointer event (so at its position at pointer-down plus the travel since
\* pointer-down, whatever the moves in between), and changes neither its size
\* nor any other shape.
C34_DragFollowsPointer ==
  (im.isDragging /\ sm.selectedShape # NULL) =>
    \A p1 \in ScreenPoints, p2 \in ScreenPoints : DragFollowsPointer(p1, p2)

\* The same with Dragging the only gesture flag set.
C34_DragAloneFollowsPointer ==
  (ActiveGestures(im) = {"isDragging"} /\ sm.selectedShape # NULL) =>
    \A p1 \in ScreenPoints, p2 \in ScreenPoints : DragFollowsPointer(p1, p2)

Abs(a) == IF Lt(a, R(0)) THEN Neg(a) ELSE a

\* The bounding box of the shape sh contains the point q.
InBox(sh, q) ==
  /\ Le(sh.x, q.x) /\ Le(q.x, Add(sh.x, sh.width))
  /\ Le(sh.y, q.y) /\ Le(q.y, Add(sh.y, sh.height))

\* The pointer-moves to p1 and then to p2 size the shape being drawn: after the
\* first it is given by the anchor and the pointer alone, the anchor is the
\* same, the box holds both points, and the two moves together give what the
\* move to p2 alone gives.
DrawFollowsPointer(p1, p2) ==
  LET id == im.drawingShape
      anchor == im.dragStartWorld
      e1 == MouseEvent(p1, 0)
      e2 == MouseEvent(p2, 0)
      current == GetMouseWorld(canvas, e1)
      one == OnMouseMove(Cur, e1)
      two == OnMouseMove(one, e2)
      direct == OnMouseMove(Cur, e2)
      sh == one.s.objs[id]
  IN  /\ sh.x = (IF Le(anchor.x, current.x) THEN anchor.x ELSE current.x)
      /\ sh.y = (IF Le(anchor.y, current.y) THEN anchor.y ELSE current.y)
      /\ sh.width = MathMax(R(10), Abs(Sub(current.x, anchor.x)))
      /\ sh.height = MathMax(R(10), Abs(Sub(current.y, anchor.y)))
      /\ one.i.dragStartWorld = anchor
      /\ InBox(sh, anchor)
      /\ InBox(sh, current)
      /\ two.s.objs[id] = direct.s.objs[id]

\* C35: while Drawing is set with a shape in progress, every pointer-move
\* gives the shape the corner and the size that the anchor and the pointer
\* determine (the size at least 10 each way), whatever the earlier moves, the
\* anchor stays, and the box of the shape holds the anchor and the pointer.
C35_DrawFollowsPointer ==
  (im.isDrawing /\ im.drawingShape # NULL) =>
    \A p1 \in ScreenPoints, p2 \in ScreenPoints : DrawFollowsPointer(p1, p2)

\* The same with Drawing the only gesture flag set.
C35_DrawAloneFollowsPointer ==
  (ActiveGestures(im) = {"isDrawing"} /\ im.drawingShape # NULL) =>
    \A p1 \in ScreenPoints, p2 \in ScreenPoints : DrawFollowsPointer(p1, p2)

\* The key ends the hold of the gesture on the shapes: the selection is
\* cleared, Delete and Backspace remove the shape that was selected, no later
\* pointer-move changes the geometry of a shape, and the pointer-up that
\* follows leaves the machine Idle.
KeyReleasesShapes(key) ==
  LET after == IMHandleKeyDown(Cur, key)
  IN  /\ after.s.selectedShape = NULL
      /\ \A id \in ShapesOf(after.s) : ~after.s.objs[id].isSelected
      /\ key \in {"Delete", "Backspace"} => sm.selectedShape \notin ShapesOf(after.s)
      /\ \A p \in ScreenPoints :
           LET moved == OnMouseMove(after, MouseEvent(p, 0))
           IN  /\ DOMAIN moved.s.objs = DOMAIN after.s.objs
               /\ \A id \in DOMAIN after.s.objs :
                    Geometry(moved.s.objs[id]) = Geometry(after.s.objs[id])
               /\ IdleOf(OnMouseUp(moved).i)
      /\ IdleOf(OnMouseUp(after).i)

\* C39: a Delete, Backspace or Escape key received while Dragging or Resizing
\* is set and a shape is selected clears the selection (Delete and Backspace
\* remove the shape), after which no pointer-move changes the position or the
\* size of a shape and the pointer-up leaves the machine Idle.
C39_KeyDuringGesture ==
  ((im.isDragging \/ im.isResizing) /\ sm.selectedShape # NULL) =>
    \A key \in Keys : KeyReleasesShapes(key)

\* The same where the selected shape is in the collection.
C39_KeyDuringGestureInStore ==
  ((im.isDragging \/ im.isResizing) /\ sm.selectedShape \in ShapesOf(sm)) =>
    \A key \in Keys : KeyReleasesShapes(key)

\* C36: in every reachable state the selected-shape reference is empty or
\* refers to a shape of the collection, and a shape of the collection has its
\* selected flag set exactly when it is the shape referred to.
C36_SelectionInStore ==
  /\ sm.selectedShape = NULL \/ sm.selectedShape \in ShapesOf(sm)
  /\ \A id \in ShapesOf(sm) : sm.objs[id].isSelected <=> id = sm.selectedShape

(***************************************************************************)
(* Properties of the machine under overlapping pointer-downs (SpecClick).  *)
(***************************************************************************)
\* C37: whenever no gesture is active every shape of the store is at least
\* 10 wide and 10 high.
C37_IdleSizeFloor ==
  IdleOf(im) =>
    \A id \in ShapesOf(sm) :
      Le(R(10), sm.objs[id].width) /\ Le(R(10), sm.objs[id].height)

(***************************************************************************)
(* Properties of the store (SpecStore).                                    *)
(***************************************************************************)
\* C3: in every reachable state at most one shape of the store has its
\* selected flag set.
C3_AtMostOneSelected ==
  Cardinality({id \in ShapesOf(sm) : sm.objs[id].isSelected}) <= 1

\* Two shapes in the store; a pointer-down on the lower one has selected it
\* after the upper one had been selected.
C3_Witness ==
  /\ Len(sm.shapes) = 2
  /\ sm.selectedShape = sm.shapes[1]
  /\ sm.objs[sm.shapes[1]].isSelected
  /\ ~sm.objs[sm.shapes[2]].isSelected
  /\ im.isDragging
  /\ ~ContainsPoint(sm.objs[sm.shapes[2]], im.dragStartWorld)

(***************************************************************************)
(* Properties of the hit-test and the z-order (SpecOrder).                 *)
(***************************************************************************)
HitWorld(p) == Pt(R(p[1]), R(p[2]))

\* C17: for every store and every point the hit-test returns the shape latest
\* in the collection among those that contain the point, and returns no shape
\* exactly when none contains it.
C17_HitTestTopmost ==
  \A p \in HitPoints :
    LET q == HitWorld(p)
        containing == {k \in 1..Len(sm.shapes) : ContainsPoint(sm.objs[sm.shapes[k]], q)}
        hit == GetShapeAtPoint(sm, q)
    IN  /\ hit = NULL <=> containing = {}
        /\ containing # {}
             => \E k \in containing :
                  /\ hit = sm.shapes[k]
                  /\ \A j \in containing : j <= k

\* A pointer-down where a circle lies over a rectangle has selected the circle.
C17_Witness ==
  /\ Len(sm.shapes) = 2
  /\ sm.objs[sm.shapes[1]].type = "rectangle"
  /\ sm.objs[sm.shapes[2]].type = "circle"
  /\ im.isDragging
  /\ ContainsPoint(sm.objs[sm.shapes[1]], im.dragStartWorld)
  /\ ContainsPoint(sm.objs[sm.shapes[2]], im.dragStartWorld)
  /\ sm.selectedShape = sm.shapes[2]

\* The handles of the shape sh at a distance of at most tolerance from p
\* (the distance compared on its square).
HandlesWithin(sh, p, tolerance) ==
  {k \in 1..Len(GetHandles(sh)) :
     LET h == GetHandles(sh)[k]
         dx == Sub(p.x, h.x)
         dy == Sub(p.y, h.y)
     IN  Le(Add(Mul(dx, dx), Mul(dy, dy)), Mul(tolerance, tolerance))}

\* C31: in the select mode with a shape selected, a left pointer-down within
\* 10 / scale of a handle of that shape sets Resizing with such a handle, no
\* other gesture flag, and leaves the selection, the flags and the order of
\* the shapes unchanged, also where a shape higher in the order contains the
\* point.
C31_HandleBeforeShape ==
  \A p \in HitPoints :
    LET world == GetMouseWorld(canvas, MouseEvent(p, 0))
        after == OnMouseDown(Cur, MouseEvent(p, 0))
        within == IF sm.selectedShape = NULL THEN {}
                  ELSE HandlesWithin(sm.objs[sm.selectedShape], world,
                                     Div(R(10), canvas.scale))
    IN  (im.mode = "select" /\ within # {}) =>
          /\ after.i.isResizing
          /\ \E k \in within :
               after.i.activeHandle = GetHandles(sm.objs[sm.selectedShape])[k].handle
          /\ after.i.isDragging = im.isDragging
          /\ after.i.isPanning = im.isPanning
          /\ after.i.isDrawing = im.isDrawing
          /\ after.s.selectedShape = sm.selectedShape
          /\ after.s.shapes = sm.shapes
          /\ after.s.objs = sm.objs

\* A pointer-down at (99,99), near the bottom-right handle of the selected
\* lower box and inside the upper box, has started Resizing the lower box.
C31_Witness ==
  /\ Len(sm.shapes) = 2
  /\ sm.selectedShape = sm.shapes[1]
  /\ Geometry(sm.objs[sm.shapes[1]]) = <<R(0), R(0), R(100), R(100)>>
  /\ im.isResizing
  /\ im.activeHandle = "bottom-right"
  /\ im.dragStartWorld = Pt(R(99), R(99))
  /\ ContainsPoint(sm.objs[sm.shapes[2]], im.dragStartWorld)

\* C32: in the select mode, a left pointer-down within tolerance of no handle
\* of the selected shape and inside a shape selects the shape latest in the
\* collection among those containing the point, flags it alone, sets
\* Dragging and no other gesture flag, and leaves the collection and the
\* geometry of every shape unchanged.
C32_ShapeSelectedAndDragged ==
  \A p \in HitPoints :
    LET world == GetMouseWorld(canvas, MouseEvent(p, 0))
        after == OnMouseDown(Cur, MouseEvent(p, 0))
        within == IF sm.selectedShape = NULL THEN {}
                  ELSE HandlesWithin(sm.objs[sm.selectedShape], world,
                                     Div(R(10), canvas.scale))
        containing == {k \in 1..Len(sm.shapes) : ContainsPoint(sm.objs[sm.shapes[k]], world)}
    IN  (im.mode = "select" /\ within = {} /\ containing # {}) =>
          /\ \E k \in containing :
               /\ \A j \in containing : j <= k
               /\ after.s.selectedShape = sm.shapes[k]
          /\ \A id \in ShapesOf(after.s) :
               after.s.objs[id].isSelected <=> id = after.s.selectedShape
          /\ after.i.isDragging
          /\ after.i.isResizing = im.isResizing
          /\ after.i.isPanning = im.isPanning
          /\ after.i.isDrawing = im.isDrawing
          /\ after.s.shapes = sm.shapes
          /\ DOMAIN after.s.objs = DOMAIN sm.objs
          /\ \A id \in DOMAIN sm.objs :
               /\ Geometry(after.s.objs[id]) = Geometry(sm.objs[id])
               /\ after.s.objs[id].type = sm.objs[id].type

\* A pointer-down at (75,75), inside both boxes and away from their handles,
\* has selected the upper box alone and started Dragging.
C32_Witness ==
  /\ Len(sm.shapes) = 2
  /\ Geometry(sm.objs[sm.shapes[1]]) = <<R(0), R(0), R(100), R(100)>>
  /\ Geometry(sm.objs[sm.shapes[2]]) = <<R(50), R(50), R(100), R(100)>>
  /\ sm.objs[sm.shapes[2]].type = "rectangle"
  /\ sm.selectedShape = sm.shapes[2]
  /\ ~sm.objs[sm.shapes[1]].isSelected
  /\ im.isDragging
  /\ im.dragStartWorld = Pt(R(75), R(75))

C20_ResizeKeepsFloor ==
  \A id \in ShapesOf(sm) :
    LET sh == sm.objs[id]
    IN  /\ (Le(R(10), sh.width) /\ Le(R(10), sh.height))
             => \A handle \in Handles, dx \in ResizeDeltas, dy \in ResizeDeltas :
                  LET after == ShapeResizeByHandle(sh, handle, Pt(dx, dy))
                  IN  Le(R(10), after.width) /\ Le(R(10), after.height)
        /\ Geometry(sh) = <<R(0), R(0), R(100), R(100)>>
             => LET after == ShapeResizeByHandle(sh, "bottom-right", Pt(R(-200), R(-200)))
                IN  after.width = R(10) /\ after.height = R(10)

\* A resize has brought the 100 x 100 shape at (0,0) down to 10 x 10, its
\* top-left corner in place.
C20_Witness ==
  /\ sm.selectedShape \in ShapesOf(sm)
  /\ Geometry(sm.objs[sm.selectedShape]) = <<R(0), R(0), R(10), R(10)>>

Committed == ShapesOf(sm) \ {im.drawingShape}

\* C22: every shape of the collection that is not being drawn is still in the
\* collection after a pointer-down, a pointer-move, a pointer-up (or
\* pointer-leave), an Escape key, a mode change and a wheel zoom; the only
\* shape a pointer-up can remove is the one its Drawing gesture was drawing.
C22_OnlyDeleteRemoves ==
  /\ \A p \in StorePoints, button \in {0, 1} :
       /\ Committed \subseteq ShapesOf(OnMouseDown(Cur, MouseEvent(p, button)).s)
       /\ Committed \subseteq ShapesOf(OnMouseMove(Cur, MouseEvent(p, button)).s)
  /\ Committed \subseteq ShapesOf(OnMouseUp(Cur).s)
  /\ Committed \subseteq ShapesOf(IMHandleKeyDown(Cur, "Escape").s)
  /\ \A mode \in Modes : Committed \subseteq ShapesOf(IMSetMode(Cur, mode).s)
  /\ \A p \in WheelPoints, zoomFactor \in ZoomFactors :
       Committed \subseteq
         ShapesOf([Cur EXCEPT !.c = CanvasHandleWheel(canvas, MouseEvent(p, 0),
                                                      zoomFactor)].s)

\* A Drawing gesture has just created its 1 x 1 shape above a committed shape
\* that is selected: the pointer-up discards the new shape only.
C22_Witness ==
  /\ Len(sm.shapes) = 2
  /\ im.isDrawing
  /\ im.drawingShape = sm.shapes[2]
  /\ sm.objs[sm.shapes[2]].width = R(1)
  /\ sm.selectedShape = sm.shapes[1]
  /\ ShapesOf(OnMouseUp(Cur).s) = {sm.shapes[1]}

\* C24: with no shape selected, deleteSelected, bringToFront and sendToBack
\* leave the collection, its order, its shapes and the selection as they are;
\* so does removeShape with an id that is not in the collection; the hit-test
\* on an empty collection returns no shape.
C24_MissingTargetNoop ==
  /\ sm.selectedShape = NULL
       => /\ SameStore(DeleteSelected(sm), sm)
          /\ SameStore(BringToFront(sm), sm)
          /\ SameStore(SendToBack(sm), sm)
  /\ \A id \in ((DOMAIN sm.objs) \cup {GenerateId(sm)}) \ ShapesOf(sm) :
       SameStore(RemoveShape(sm, id), sm)
  /\ sm.shapes = <<>>
       => \A p \in StorePoints : GetShapeAtPoint(sm, Pt(R(p[1]), R(p[2]))) = NULL

\* Two shapes in the collection and none selected, between gestures.
C24_Witness ==
  /\ Len(sm.shapes) = 2
  /\ sm.selectedShape = NULL
  /\ ActiveGestures(im) = {}
  /\ SameStore(DeleteSelected(sm), sm)

(***************************************************************************)
(* Properties of the styles (SpecStyle).                                   *)
(***************************************************************************)
\* C25: with no shape selected, applyStyleToSelected changes the style of no
\* shape of the collection, and a shape created after the call has the style
\* it would have had without the call.
C25_ApplyStyleUnselectedNoop ==
  sm.selectedShape = NULL
    => \A style \in StylePartials :
         LET after == ApplyStyleToSelected(sm, style)
             created == GenerateId(sm)
         IN  /\ \A id \in ShapesOf(sm) : after.objs[id].style = sm.objs[id].style
             /\ CreateShape(after, R(0), R(0), R(100), R(100)).objs[created].style
                  = CreateShape(sm, R(0), R(0), R(100), R(100)).objs[created].style

(***************************************************************************)
(* Properties of the gestures under a moving viewport (SpecFrame).         *)
(***************************************************************************)
\* The selected shape has a handle drawn at most 10 pixels from the screen
\* point p.
HandleNearOnScreen(p) ==
  /\ sm.selectedShape # NULL
  /\ \E k \in 1..Len(GetHandles(sm.objs[sm.selectedShape])) :
       LET h == GetHandles(sm.objs[sm.selectedShape])[k]
           drawn == WorldToScreen(canvas, Pt(h.x, h.y))
           dx == Sub(p.x, drawn.x)
           dy == Sub(p.y, drawn.y)
       IN  Le(Add(Mul(dx, dx), Mul(dy, dy)), R(100))

\* C33: a left pointer-down in the select mode, with no gesture active, sets
\* the handle tolerance to 10 / scale for the scale of that moment, and sets
\* Resizing exactly when the pointer is at most 10 screen pixels from a handle
\* of the selected shape.
C33_ToleranceInPixels ==
  \A p \in ViewPoints :
    LET e == MouseEvent(p, 0)
        after == OnMouseDown(Cur, e)
        screen == Pt(Sub(e.x, R(RectLeft)), Sub(e.y, R(RectTop)))
    IN  (im.mode = "select" /\ ActiveGestures(im) = {}) =>
          /\ after.i.handleTolerance = Div(R(10), canvas.scale)
          /\ after.i.isResizing <=> HandleNearOnScreen(screen)

\* At the scale 0.01 a pointer-down more than 10 world units from every
\* handle of the selected shape, and within 10 pixels of one, has started
\* Resizing.
C33_Witness ==
  /\ canvas.scale = MinScale
  /\ ActiveGestures(im) = {"isResizing"}
  /\ sm.selectedShape \in ShapesOf(sm)
  /\ im.handleTolerance = R(1000)
  /\ \A k \in 1..Len(GetHandles(sm.objs[sm.selectedShape])) :
       LET h == GetHandles(sm.objs[sm.selectedShape])[k]
           dx == Sub(im.dragStartWorld.x, h.x)
           dy == Sub(im.dragStartWorld.y, h.y)
       IN  Lt(R(100), Add(Mul(dx, dx), Mul(dy, dy)))

\* The pan-enabled flag of the viewport is set exactly in the pan mode.
C38_PanFlagFollowsMode == canvas.isPanEnabled <=> (im.mode = "pan")

\* C38: in every reachable state the pan-enabled flag of the viewport is set
\* exactly in the pan mode, and outside the pan mode no pointer-move of a
\* left-button drag changes the transform.
C38_LeftPanOnlyInPanMode ==
  /\ C38_PanFlagFollowsMode
  /\ \A p \in ViewPoints :
       im.mode # "pan" => SameView(OnMouseMove(Cur, MouseEvent(p, 0)).c, canvas)

\* C23: scale and offset are the same after a left-button pointer-down in the
\* select or draw mode, after every pointer-move and pointer-up (or
\* pointer-leave) of a Dragging, Resizing or Drawing gesture, after a key, a
\* mode change, a delete, and after the store commands bringToFront and
\* sendToBack.
C23_GesturesKeepTransform ==
  /\ \A p \in ViewPoints :
       LET e == MouseEvent(p, 0)
       IN  /\ (im.mode \in {"select", "draw"} /\ ActiveGestures(im) = {})
                => SameView(OnMouseDown(Cur, e).c, canvas)
           /\ (ActiveGestures(im) # {} /\ ~im.isPanning)
                => SameView(OnMouseMove(Cur, e).c, canvas)
  /\ (ActiveGestures(im) # {} /\ ~im.isPanning) => SameView(OnMouseUp(Cur).c, canvas)
  /\ \A key \in Keys : SameView(IMHandleKeyDown(Cur, key).c, canvas)
  /\ \A mode \in Modes : SameView(IMSetMode(Cur, mode).c, canvas)
  /\ SameView([Cur EXCEPT !.s = DeleteSelected(sm)].c, canvas)
  /\ SameView([Cur EXCEPT !.s = BringToFront(sm)].c, canvas)
  /\ SameView([Cur EXCEPT !.s = SendToBack(sm)].c, canvas)

\* A Dragging gesture on the selected shape under a viewport zoomed to scale 2
\* and panned.
C23_Witness ==
  /\ ActiveGestures(im) = {"isDragging"}
  /\ sm.selectedShape \in ShapesOf(sm)
  /\ ContainsPoint(sm.objs[sm.selectedShape], im.dragStartWorld)
  /\ canvas.scale = R(2)
  /\ canvas.offsetX # R(0)

(***************************************************************************)
(* Properties of the viewport (SpecView).                                  *)
(***************************************************************************)
\* C5: in every reachable state minScale <= scale <= maxScale.
C5_ScaleWithinLimits == Le(MinScale, canvas.scale) /\ Le(canvas.scale, MaxScale)

\* C8: during the Panning that a select-mode pointer-down on empty space
\* started, a pointer-move from the pointer-down point to another point p adds
\* the screen delta between the two to the viewport offset.
C8_SelectPanMovesOffset ==
  \A p \in ViewPoints :
    LET e == MouseEvent(p, 0)
        down == WorldToScreen(canvas, im.dragStartWorld)
        st == OnMouseMove(Cur, e)
    IN  (/\ im.mode = "select"
         /\ ActiveGestures(im) = {"isPanning"}
         /\ ~canvas.isDragging
         /\ SameView(canvas, CanvasInit)
         /\ Pt(e.x, e.y) # down)
        => /\ st.c.offsetX = Add(canvas.offsetX, Sub(e.x, down.x))
           /\ st.c.offsetY = Add(canvas.offsetY, Sub(e.y, down.y))

\* C19: a two-finger touch-move received while the recorded pinch distance is
\* zero (recorded as zero, or never recorded), the transform being finite with
\* its scale within the limits, leaves the scale finite and within
\* [minScale, maxScale] and the offset defined.
C19_PinchGuarded ==
  \A touches \in TouchLists :
    LET after == CanvasHandleTouchMove(canvas, touches)
    IN  (/\ Len(touches) = 2
         /\ canvas.lastTouchDistance = R(0)
         /\ Le(MinScale, canvas.scale) /\ Le(canvas.scale, MaxScale)
         /\ IsFinite(canvas.offsetX) /\ IsFinite(canvas.offsetY))
        => /\ IsFinite(after.scale)
           /\ Le(MinScale, after.scale) /\ Le(after.scale, MaxScale)
           /\ ~IsNaN(after.offsetX) /\ ~IsNaN(after.offsetY)

\* C26: from every reachable transform resetView gives the scale 1 and the
\* offset it gives from the transform of construction (half the canvas size
\* each way); a second resetView changes nothing.
C26_ResetViewFixed ==
  LET once == CanvasResetView(canvas)
      twice == CanvasResetView(once)
  IN  /\ once.scale = R(1)
      /\ SameView(once, CanvasResetView(CanvasInit))
      /\ once.offsetX = Div(R(CanvasWidth), R(2))
      /\ once.offsetY = Div(R(CanvasHeight), R(2))
      /\ SameView(twice, once)

\* resetView has been called: the scale is 1 and the origin is at the centre
\* of the canvas.
C26_Witness ==
  /\ canvas.scale = R(1)
  /\ canvas.offsetX = Div(R(CanvasWidth), R(2))
  /\ canvas.offsetY = Div(R(CanvasHeight), R(2))

\* The points the two conversions are applied to, as screen points and as
\* world points.
RoundTripPoints ==
  {Pt(x, y) : x \in {R(0), R(10), R(-7), <<1, 3>>}, y \in {R(0), R(80), <<-5, 2>>}}

\* C11: whenever the scale is within [minScale, maxScale], worldToScreen after
\* screenToWorld gives back every screen point, and screenToWorld after
\* worldToScreen gives back every world point.
C11_ConversionsInverse ==
  (Le(MinScale, canvas.scale) /\ Le(canvas.scale, MaxScale))
    => \A p \in RoundTripPoints :
         /\ WorldToScreen(canvas, ScreenToWorld(canvas, p)) = p
         /\ ScreenToWorld(canvas, WorldToScreen(canvas, p)) = p

\* The viewport has been zoomed to scale 2 around (10,10) and then panned: the
\* conversions are neither the identity nor a pure scaling.
C11_Witness ==
  /\ canvas.scale = R(2)
  /\ canvas.offsetX = R(0)
  /\ canvas.offsetY = R(-10)
  /\ ScreenToWorld(canvas, Pt(R(10), R(80))) = Pt(R(5), R(45))

(***************************************************************************)
(* Properties of panning (SpecPan).                                        *)
(***************************************************************************)
\* C9: in pan mode a left pointer-down starts Panning and changes neither the
\* store nor the transform; every pointer-move of that Panning adds the screen
\* delta from the previous pointer position to the offset and changes neither
\* the scale nor the store.
C9_PanAddsRawDelta ==
  \A p \in ViewPoints :
    LET e == MouseEvent(p, 0)
        down == OnMouseDown(Cur, e)
        move == OnMouseMove(Cur, e)
    IN  /\ im.mode = "pan"
           => /\ down.i.isPanning
              /\ down.c.isDragging
              /\ down.c.lastMousePos = Pt(e.x, e.y)
              /\ SameView(down.c, canvas)
              /\ down.s = sm
        /\ (im.isPanning /\ canvas.isDragging)
           => /\ move.c.offsetX = Add(canvas.offsetX, Sub(e.x, canvas.lastMousePos.x))
              /\ move.c.offsetY = Add(canvas.offsetY, Sub(e.y, canvas.lastMousePos.y))
              /\ move.c.scale = canvas.scale
              /\ move.c.lastMousePos = Pt(e.x, e.y)
              /\ move.s = sm

\* At scale 2 a pointer-down in pan mode on the selected shape and a move from
\* (10,10) to (20,10) have panned the viewport; the shape is where it was drawn.
C9_Witness ==
  /\ im.mode = "pan"
  /\ im.isPanning
  /\ canvas.isDragging
  /\ canvas.scale = R(2)
  /\ canvas.lastMousePos = Pt(R(20), R(10))
  /\ canvas.offsetX = R(0)
  /\ WorldToScreen(canvas, im.dragStartWorld) = Pt(R(20), R(10))
  /\ Len(sm.shapes) = 1
  /\ sm.selectedShape = sm.shapes[1]
  /\ ContainsPoint(sm.objs[sm.shapes[1]], im.dragStartWorld)
  /\ Geometry(sm.objs[sm.shapes[1]]) = <<R(10), R(10), R(10), R(10)>>

(***************************************************************************)
(* SpecZoom: one wheel zoom from each transform of a grid.                 *)
(***************************************************************************)
ZoomScales == {MinScale, <<1, 2>>, R(1), R(2), MaxScale}

ZoomOffsets == {R(-5), R(0), R(5)}

ZoomInits ==
  {[CanvasInit EXCEPT !.scale = scale, !.offsetX = ox, !.offsetY = oy] :
     scale \in ZoomScales, ox \in ZoomOffsets, oy \in ZoomOffsets}

InitZoom ==
  /\ canvas \in ZoomInits
  /\ im = IMInit
  /\ sm = StoreInit

ZoomWheel ==
  /\ canvas \in ZoomInits
  /\ \E p \in ScreenPoints, zoomFactor \in ZoomFactors :
       canvas' = Handled([Cur EXCEPT !.c = CanvasHandleWheel(canvas, MouseEvent(p, 0),
                                                             zoomFactor)]).c
  /\ UNCHANGED <<im, sm>>

NextZoom == ZoomWheel

SpecZoom == InitZoom /\ [][NextZoom]_vars

\* C10: a wheel zoom at a screen point p, clamped or not, leaves the world
\* point under p unchanged.
C10_ZoomKeepsAnchor ==
  \A p \in ScreenPoints, zoomFactor \in ZoomFactors :
    LET e == MouseEvent(p, 0)
        after == CanvasHandleWheel(canvas, e, zoomFactor)
    IN  ScreenToWorld(after, Pt(e.x, e.y)) = ScreenToWorld(canvas, Pt(e.x, e.y))

\* A wheel zoom at (10,10) from scale 1 and offset 0 was clamped at maxScale.
C10_Witness ==
  /\ canvas.scale = MaxScale
  /\ canvas.offsetX = R(-990)
  /\ canvas.offsetY = R(-990)

(***************************************************************************)
(* The layers: the tick spacing of the axes and the adaptive grid size.    *)
(***************************************************************************)
RECURSIVE IPow(_, _)
IPow(b, n) == IF n = 0 THEN 1 ELSE b * IPow(b, n - 1)

\* Math.pow(b, e) for an integer, infinite or NaN exponent.
MathPow(b, e) ==
  IF IsNaN(e) THEN NaN
  ELSE IF e = PosInf THEN PosInf
  ELSE IF e = Neg(PosInf) THEN R(0)
  ELSE IF e[1] >= 0 THEN R(IPow(b, e[1]))
  ELSE <<1, IPow(b, -e[1])>>

\* The integer n with b^n <= x < b^(n+1), for a finite x > 0.
RECURSIVE FloorLog(_, _)
FloorLog(b, x) ==
  IF Lt(x, R(1)) THEN FloorLog(b, Mul(x, R(b))) - 1
  ELSE IF Le(R(b), x) THEN FloorLog(b, Div(x, R(b))) + 1
  ELSE 0

\* Math.floor(Math.log10(x)) and Math.floor(Math.log2(x)).
MathFloorLog(b, x) ==
  IF IsNaN(x) \/ Lt(x, R(0)) THEN NaN
  ELSE IF x = R(0) THEN Neg(PosInf)
  ELSE IF x = PosInf THEN PosInf
  ELSE R(FloorLog(b, x))

TargetPixelSpacing == 80

\* A variant whose last branch wraps to 1 instead of 10.
CalculateTickSpacing_WrapToOne(scale) ==
  LET worldSpacing == Div(R(TargetPixelSpacing), scale)
      magnitude == MathPow(10, MathFloorLog(10, worldSpacing))
      normalized == Div(worldSpacing, magnitude)
      niceNormalized ==
        IF Lt(normalized, <<3, 2>>) THEN 1
        ELSE IF Lt(normalized, R(3)) THEN 2
        ELSE IF Lt(normalized, R(7)) THEN 5
        ELSE 1
  IN  Mul(R(niceNormalized), magnitude)

\* A variant that returns the world spacing cut to its first digit.
CalculateTickSpacing_Truncated(scale) ==
  LET worldSpacing == Div(R(TargetPixelSpacing), scale)
      magnitude == MathPow(10, MathFloorLog(10, worldSpacing))
      normalized == Div(worldSpacing, magnitude)
      niceNormalized ==
        IF Lt(normalized, <<3, 2>>) THEN 1
        ELSE IF Lt(normalized, R(3)) THEN 2
        ELSE IF Lt(normalized, R(7)) THEN 3
        ELSE 7
  IN  Mul(R(niceNormalized), magnitude)

CalculateTickSpacing(scale) ==
  LET worldSpacing == Div(R(TargetPixelSpacing), scale)
      magnitude == MathPow(10, MathFloorLog(10, worldSpacing))
      normalized == Div(worldSpacing, magnitude)
      niceNormalized ==
        IF Lt(normalized, <<3, 2>>) THEN 1
        ELSE IF Lt(normalized, R(3)) THEN 2
        ELSE IF Lt(normalized, R(7)) THEN 5
        ELSE 10
  IN  Mul(R(niceNormalized), magnitude)

\* The configuration of the GridRenderer constructor.
GridConfig == [baseGridSize |-> 50, minGridSize |-> 10, maxGridSize |-> 200]

\* A variant without the upper clamp.
CalculateAdaptiveGridSize_NoMax(scale) ==
  LET gridLevel == MathFloorLog(2, scale)
      raw == Mul(R(GridConfig.baseGridSize), MathPow(2, Neg(gridLevel)))
      mainSize == MathMax(R(GridConfig.minGridSize), raw)
  IN  [mainSize |-> mainSize,
       subSize |-> Div(mainSize, R(5)),
       showSub |-> Lt(<<1, 2>>, scale)]

\* fractional = logScale - floor(logScale) is never below 0 for a finite
\* logScale, so showSub is scale > 0.5 there.
CalculateAdaptiveGridSize(scale) ==
  LET gridLevel == MathFloorLog(2, scale)
      raw == Mul(R(GridConfig.baseGridSize), MathPow(2, Neg(gridLevel)))
      mainSize == MathMax(R(GridConfig.minGridSize),
                          MathMin(R(GridConfig.maxGridSize), raw))
  IN  [mainSize |-> mainSize,
       subSize |-> Div(mainSize, R(5)),
       showSub |-> Lt(<<1, 2>>, scale)]

(***************************************************************************)
(* SpecLayers: one wheel zoom from each scale of a grid that straddles the *)
(* thresholds and the decades of the tick spacing and the powers of two of *)
(* the grid.                                                               *)
(***************************************************************************)
Nudges == {<<99, 100>>, R(1), <<101, 100>>}

TickDecades == {1, 10, 100, 1000}

TickThresholds == {R(1), <<3, 2>>, R(3), R(7)}

MaxGridLevel == 6

InScaleRange(scale) == Le(MinScale, scale) /\ Le(scale, MaxScale)

TickScales ==
  {Div(R(TargetPixelSpacing), Mul(Mul(t, R(d)), n)) :
     t \in TickThresholds, d \in TickDecades, n \in Nudges}

GridScales ==
  {Mul(MathPow(2, R(k)), n) : k \in (-MaxGridLevel)..MaxGridLevel, n \in Nudges}

LayerScales ==
  {scale \in TickScales \cup GridScales \cup {MinScale, MaxScale} :
     InScaleRange(scale)}

LayerFactors == {<<1, 2>>, R(2), R(0), PosInf}

LayerInits == {[CanvasInit EXCEPT !.scale = scale] : scale \in LayerScales}

InitLayers ==
  /\ canvas \in LayerInits
  /\ im = IMInit
  /\ sm = StoreInit

LayersWheel ==
  /\ canvas \in LayerInits
  /\ \E zoomFactor \in LayerFactors :
       canvas' = Handled([Cur EXCEPT !.c = CanvasHandleWheel(canvas,
                                              MouseEvent(<<10, 10>>, 0),
                                              zoomFactor)]).c
  /\ UNCHANGED <<im, sm>>

NextLayers == LayersWheel

SpecLayers == InitLayers /\ [][NextLayers]_vars

(***************************************************************************)
(* Properties of the layers (SpecLayers).                                  *)
(***************************************************************************)
\* C27: the tick spacing does not increase with the scale: between the
\* current scale and every scale of the grid, the larger scale has the
\* smaller or equal spacing.
C27_TickSpacingMonotone ==
  InScaleRange(canvas.scale) =>
    \A other \in LayerScales :
      /\ Le(canvas.scale, other) =>
           Le(CalculateTickSpacing(other), CalculateTickSpacing(canvas.scale))
      /\ Le(other, canvas.scale) =>
           Le(CalculateTickSpacing(canvas.scale), CalculateTickSpacing(other))

\* A zoom by 2 from the scale 80/7 crossed the threshold 7: the spacing went
\* from 10 to 5.
C27_Witness ==
  /\ canvas.scale = <<160, 7>>
  /\ canvas.offsetX = R(-10)
  /\ CalculateTickSpacing(canvas.scale) = R(5)
  /\ CalculateTickSpacing(<<80, 7>>) = R(10)

\* The decades 80 / scale can lie in for a scale between minScale and maxScale.
Decades == (-1)..3

\* C28: the tick spacing is m * 10^n, n the integer with
\* 10^n <= 80/scale < 10^(n+1) and m one of 1, 2, 5, 10 chosen from
\* (80/scale) / 10^n by the thresholds 1.5, 3 and 7.
C28_TickSpacingNice ==
  InScaleRange(canvas.scale) =>
    \E n \in Decades :
      LET worldSpacing == Div(R(TargetPixelSpacing), canvas.scale)
          normalized == Div(worldSpacing, MathPow(10, R(n)))
          m == IF Lt(normalized, <<3, 2>>) THEN 1
               ELSE IF Lt(normalized, R(3)) THEN 2
               ELSE IF Lt(normalized, R(7)) THEN 5
               ELSE 10
      IN  /\ Le(R(1), normalized)
          /\ Lt(normalized, R(10))
          /\ m \in {1, 2, 5, 10}
          /\ CalculateTickSpacing(canvas.scale) = Mul(R(m), MathPow(10, R(n)))

\* A zoom was clamped at maxScale: 80/scale is 0.8, in the decade -1, and the
\* spacing is 10 * 10^-1.
C28_Witness ==
  /\ canvas.scale = MaxScale
  /\ canvas.offsetX # R(0)
  /\ CalculateTickSpacing(canvas.scale) = R(1)

\* mainSize before the clamp.
RawGridSize(scale) ==
  Mul(R(GridConfig.baseGridSize), MathPow(2, R(-FloorLog(2, scale))))

Clamp(x, lo, hi) == IF Lt(x, lo) THEN lo ELSE IF Lt(hi, x) THEN hi ELSE x

Unclamped(scale) == CalculateAdaptiveGridSize(scale).mainSize = RawGridSize(scale)

InEllipse(x, y, w, h, p) ==
  LET cx == Add(x, Div(w, R(2)))
      cy == Add(y, Div(h, R(2)))
      rx2 == Mul(Div(w, R(2)), Div(w, R(2)))
      ry2 == Mul(Div(h, R(2)), Div(h, R(2)))
      ex2 == Mul(Sub(p.x, cx), Sub(p.x, cx))
      ey2 == Mul(Sub(p.y, cy), Sub(p.y, cy))
  IN  Le(Add(Div(ex2, rx2), Div(ey2, ry2)), R(1))

\* C29: an ellipse of radii other than 0 contains a point exactly when
\* ((p.x - cx)/rx)^2 + ((p.y - cy)/ry)^2 <= 1; the ellipse of bounding box
\* (0,0,100,100) contains (50,50) and not (99,99); an ellipse with a radius
\* of 0 contains no point, its centre included.
C29_EllipseContains ==
  \A id \in ShapesOf(sm) :
    LET sh == sm.objs[id]
        centre == Pt(Add(sh.x, Div(sh.width, R(2))), Add(sh.y, Div(sh.height, R(2))))
    IN  (sh.type = "circle" /\ IsFinite(sh.x) /\ IsFinite(sh.y)
           /\ IsFinite(sh.width) /\ IsFinite(sh.height)) =>
          /\ \A p \in {HitWorld(q) : q \in EllipsePoints} \cup {centre} :
               IF sh.width = R(0) \/ sh.height = R(0)
                 THEN ~ContainsPoint(sh, p)
                 ELSE ContainsPoint(sh, p)
                        <=> InEllipse(sh.x, sh.y, sh.width, sh.height, p)
          /\ Geometry(sh) = <<R(0), R(0), R(100), R(100)>> =>
               /\ ContainsPoint(sh, Pt(R(50), R(50)))
               /\ ~ContainsPoint(sh, Pt(R(99), R(99)))

\* A pointer-down at (50,50), the centre of an ellipse of width 0 lying over
\* the circle of bounding box (0,0,100,100), has passed through the ellipse
\* and selected the circle.
C29_Witness ==
  /\ Len(sm.shapes) = 2
  /\ Geometry(sm.objs[sm.shapes[1]]) = <<R(0), R(0), R(100), R(100)>>
  /\ Geometry(sm.objs[sm.shapes[2]]) = <<R(50), R(0), R(0), R(100)>>
  /\ sm.selectedShape = sm.shapes[1]
  /\ im.isDragging
  /\ im.dragStartWorld = Pt(R(50), R(50))

====
